---- MODULE Spec2Model ----
(***************************************************************************)
(* Model of the IT8951 e-paper driver: the SPI protocol codec              *)
(* (src/src/interface.rs), the register/command layer and the typestate    *)
(* lifecycle of the driver (src/src/lib.rs).                               *)
(*                                                                         *)
(* Every driver call is one action.  What a call does to the outside is    *)
(* recorded in `log`, the sequence of events of the last call: polls of    *)
(* the HRDY (busy) pin, delays, reset-pin writes and SPI transfers with    *)
(* the exact bytes.  The controller and the HAL are the environment: the   *)
(* readings of the busy pin, the bytes shifted in, and the failures of     *)
(* the SPI and GPIO drivers are inputs drawn with \E.                      *)
(***************************************************************************)
EXTENDS Integers, Sequences, FiniteSets, TLC

VARIABLES
    state,      \* typestate of the driver handle (PhantomData<State>)
    dev_info,   \* IT8951.dev_info : Option<DevInfo>
    config,     \* IT8951.config
    mcs,        \* IT8951.memory_converter_settings
    op,         \* the last call: [name, w (u16 arguments), d (byte payload)]
    res,        \* what the last call returned: "Ok" or the error
    val,        \* the values the last call returned (sequence of u16)
    log,        \* the events of the last call on pins and bus, in order
    \* The call in progress, when a call is followed step by step:
    pc,         \* "idle", or where the call is: "call", "wait", "transfer"
    todo,       \* the interface calls the call has still to make
    busy_counter,\* wait_while_busy: counter
    lut_counter,\* wait_for_display_ready: counter
    hw,         \* the controller: "any", "stuck_busy", "stuck_lut"
    \* A serializer, when one is followed item by item:
    ser,        \* the serializer / iterator object and what it was built from
    emitted     \* the items its next() has returned so far

stepvars == <<pc, todo, busy_counter, lut_counter, hw>>

servars == <<ser, emitted>>

vars == <<state, dev_info, config, mcs, op, res, val, log, pc, todo,
          busy_counter, lut_counter, hw, ser, emitted>>

----------------------------------------------------------------------------
(* Bounds *)

\* The busy-poll budget of wait_while_busy.  The source compares the poll
\* counter with the literal 10_000_000 (interface.rs:102); the model keeps
\* the comparison and scales the literal down.
BusyBudget == 2

\* Largest number of u16 words of a direct read_multi_data call.
MaxReadWords == 2

\* Largest payload length (bytes) of a direct write_multi_data call.
MaxBlockLen == 3

----------------------------------------------------------------------------
(* Values *)

ByteSample == {0, 1, 171, 255}

WordSample == {0, 1, 255, 256, 770, 43981, 65535}

\* (v >> 8) as u8
HiByte(v) == (v \div 256) % 256

\* v as u8
LoByte(v) == v % 256

\* u16::from_be_bytes([a, b])
from_be_bytes(a, b) == a * 256 + b

RECURSIVE Zeros(_)
Zeros(n) == IF n <= 0 THEN <<>> ELSE <<0>> \o Zeros(n - 1)

RECURSIVE SeqsUpTo(_, _)
SeqsUpTo(S, n) ==
    IF n = 0 THEN {<<>>}
    ELSE LET shorter == SeqsUpTo(S, n - 1)
         IN  shorter \cup {Append(s, x) : s \in {t \in shorter : Len(t) = n - 1}, x \in S}

RECURSIVE SeqsOfLen(_, _)
SeqsOfLen(S, n) ==
    IF n = 0 THEN {<<>>} ELSE {Append(s, x) : s \in SeqsOfLen(S, n - 1), x \in S}

----------------------------------------------------------------------------
(* Events of a call *)

EvPoll(reading)      == [e |-> "poll",     v |-> reading, tx |-> <<>>, rx |-> <<>>, n |-> 0]
EvDelayUs(us)        == [e |-> "delay_us", v |-> "",      tx |-> <<>>, rx |-> <<>>, n |-> us]
EvDelayMs(ms)        == [e |-> "delay_ms", v |-> "",      tx |-> <<>>, rx |-> <<>>, n |-> ms]
EvRst(level, ok)     == [e |-> "rst",      v |-> level,   tx |-> <<>>, rx |-> <<>>, n |-> IF ok THEN 1 ELSE 0]
\* spi.write(buf) / spi.transaction([Write, Write]): bytes shifted out
EvWrite(buf, ok)     == [e |-> "write",    v |-> "",      tx |-> buf,  rx |-> <<>>, n |-> IF ok THEN 1 ELSE 0]
\* spi.transfer_in_place(buf): bytes shifted out and the bytes shifted in
EvTransfer(buf, inb, ok) == [e |-> "transfer", v |-> "",  tx |-> buf,  rx |-> inb,  n |-> IF ok THEN 1 ELSE 0]

IsBus(ev) == ev.e \in {"write", "transfer"}

\* The SPI traffic of a log: what a spy on the transport records.
Frames(l) == SelectSeq(l, IsBus)

----------------------------------------------------------------------------
(* The busy pin as the environment drives it during one wait: `busy` polls *)
(* read busy (is_low = Ok(true)); the next poll reads ready, or the GPIO   *)
(* driver fails on it when `err`.                                          *)

Lines == [busy : 0 .. BusyBudget + 3, err : BOOLEAN]

ReadyLine == [busy |-> 0, err |-> FALSE]

\* self.busy.is_low() at the poll with index i (0-based)
is_low(line, i) ==
    IF i < line.busy THEN "busy" ELSE IF line.err THEN "err" ELSE "ready"

\* A wait that times out with the budget of the source
RECURSIVE wait_loop(_, _, _)
wait_loop(line, counter, acc) ==
    LET reading == is_low(line, counter)
        polled  == Append(acc, EvPoll(reading))
    IN  IF reading = "err" THEN [res |-> "GPIOError", log |-> polled]
        ELSE IF reading = "ready" THEN [res |-> "Ok", log |-> polled]
        ELSE IF counter > BusyBudget THEN [res |-> "BusyTimeout", log |-> polled]
        ELSE wait_loop(line, counter + 1, Append(polled, EvDelayUs(1)))

wait_while_busy(line) == wait_loop(line, 0, <<>>)

\* The result of a primitive: res, the events, the value read (u16 words)
Prim(r, l, v) == [res |-> r, log |-> l, val |-> v]

\* write_data that does not look at the result of wait_while_busy
write_data_unchecked(data, line, spi_ok) ==
    LET w   == wait_while_busy(line)
        buf == <<0, 0, HiByte(data), LoByte(data)>>
    IN  IF ~spi_ok THEN Prim("SpiError", Append(w.log, EvWrite(buf, FALSE)), <<>>)
        ELSE Prim(w.res, Append(w.log, EvWrite(buf, TRUE)), <<>>)

write_data(data, line, spi_ok) ==
    LET w   == wait_while_busy(line)
        buf == <<0, 0, HiByte(data), LoByte(data)>>
    IN  IF w.res # "Ok" THEN Prim(w.res, w.log, <<>>)
        ELSE IF ~spi_ok THEN Prim("SpiError", Append(w.log, EvWrite(buf, FALSE)), <<>>)
        ELSE Prim("Ok", Append(w.log, EvWrite(buf, TRUE)), <<>>)

\* write_multi_data without the check of the length
write_multi_data_unaligned(data, line, spi_ok) ==
    LET w == wait_while_busy(line)
    IN  IF w.res # "Ok" THEN Prim(w.res, w.log, <<>>)
        ELSE IF ~spi_ok
             THEN Prim("SpiError", Append(w.log, EvWrite(<<0, 0>> \o data, FALSE)), <<>>)
        ELSE Prim("Ok", Append(w.log, EvWrite(<<0, 0>> \o data, TRUE)), <<>>)

write_multi_data(data, line, spi_ok) ==
    LET w == wait_while_busy(line)
    IN  IF w.res # "Ok" THEN Prim(w.res, w.log, <<>>)
        ELSE IF Len(data) % 2 > 0 THEN Prim("BufferAlignment", w.log, <<>>)
        ELSE IF ~spi_ok
             THEN Prim("SpiError", Append(w.log, EvWrite(<<0, 0>> \o data, FALSE)), <<>>)
        ELSE Prim("Ok", Append(w.log, EvWrite(<<0, 0>> \o data, TRUE)), <<>>)

\* write_command that sends the value low byte first
write_command_le(cmd, line, spi_ok) ==
    LET w   == wait_while_busy(line)
        buf == <<96, 0, LoByte(cmd), HiByte(cmd)>>
    IN  IF w.res # "Ok" THEN Prim(w.res, w.log, <<>>)
        ELSE IF ~spi_ok THEN Prim("SpiError", Append(w.log, EvWrite(buf, FALSE)), <<>>)
        ELSE Prim("Ok", Append(w.log, EvWrite(buf, TRUE)), <<>>)

write_command(cmd, line, spi_ok) ==
    LET w   == wait_while_busy(line)
        buf == <<96, 0, HiByte(cmd), LoByte(cmd)>>
    IN  IF w.res # "Ok" THEN Prim(w.res, w.log, <<>>)
        ELSE IF ~spi_ok THEN Prim("SpiError", Append(w.log, EvWrite(buf, FALSE)), <<>>)
        ELSE Prim("Ok", Append(w.log, EvWrite(buf, TRUE)), <<>>)

\* read_data that decodes the two bytes before the payload
read_data_early(line, spi_ok, rx) ==
    LET w   == wait_while_busy(line)
        buf == <<16, 0, 0, 0, 0, 0>>
    IN  IF w.res # "Ok" THEN Prim(w.res, w.log, <<>>)
        ELSE IF ~spi_ok THEN Prim("SpiError", Append(w.log, EvTransfer(buf, rx, FALSE)), <<>>)
        ELSE Prim("Ok", Append(w.log, EvTransfer(buf, rx, TRUE)),
                  <<from_be_bytes(rx[3], rx[4])>>)

\* rx: the 6 bytes the controller shifts in during the transfer
read_data(line, spi_ok, rx) ==
    LET w   == wait_while_busy(line)
        buf == <<16, 0, 0, 0, 0, 0>>
    IN  IF w.res # "Ok" THEN Prim(w.res, w.log, <<>>)
        ELSE IF ~spi_ok THEN Prim("SpiError", Append(w.log, EvTransfer(buf, rx, FALSE)), <<>>)
        ELSE Prim("Ok", Append(w.log, EvTransfer(buf, rx, TRUE)),
                  <<from_be_bytes(rx[5], rx[6])>>)

\* read_multi_data that starts the transfer without waiting for the
\* controller
read_multi_data_no_wait(n, line, spi_ok, rx) ==
    LET read_buf == <<16, 0>> \o Zeros(n * 2 + 2)
        OFFSET   == 4
    IN  IF ~spi_ok
        THEN Prim("SpiError", <<EvTransfer(read_buf, rx, FALSE)>>, <<>>)
        ELSE Prim("Ok", <<EvTransfer(read_buf, rx, TRUE)>>,
                  [index \in 1 .. n |->
                      from_be_bytes(rx[OFFSET + (index - 1) * 2 + 1],
                                    rx[OFFSET + (index - 1) * 2 + 2])])

\* n = buf.len(); rx: the 2n+4 bytes shifted in
read_multi_data(n, line, spi_ok, rx) ==
    LET w        == wait_while_busy(line)
        read_buf == <<16, 0>> \o Zeros(n * 2 + 2)
        OFFSET   == 4
    IN  IF w.res # "Ok" THEN Prim(w.res, w.log, <<>>)
        ELSE IF ~spi_ok
             THEN Prim("SpiError", Append(w.log, EvTransfer(read_buf, rx, FALSE)), <<>>)
        ELSE Prim("Ok", Append(w.log, EvTransfer(read_buf, rx, TRUE)),
                  [index \in 1 .. n |->
                      from_be_bytes(rx[OFFSET + (index - 1) * 2 + 1],
                                    rx[OFFSET + (index - 1) * 2 + 2])])

\* reset that finishes the pulse after a failure of the pin and reports
\* the failure at the end
reset_keeps_going(gpio_fail) ==
    Prim(IF gpio_fail = 0 THEN "Ok" ELSE "GPIOError",
         <<EvRst("high", gpio_fail # 1), EvDelayMs(200), EvRst("low", gpio_fail # 2),
           EvDelayMs(20), EvRst("high", gpio_fail # 3), EvDelayMs(200)>>, <<>>)

\* gpio_fail: 0 = the reset pin never fails, k = its k-th write fails
reset(gpio_fail) ==
    IF gpio_fail = 1 THEN Prim("GPIOError", <<EvRst("high", FALSE)>>, <<>>)
    ELSE IF gpio_fail = 2
         THEN Prim("GPIOError", <<EvRst("high", TRUE), EvDelayMs(200), EvRst("low", FALSE)>>, <<>>)
    ELSE IF gpio_fail = 3
         THEN Prim("GPIOError", <<EvRst("high", TRUE), EvDelayMs(200), EvRst("low", TRUE),
                                  EvDelayMs(20), EvRst("high", FALSE)>>, <<>>)
    ELSE Prim("Ok", <<EvRst("high", TRUE), EvDelayMs(200), EvRst("low", TRUE),
                      EvDelayMs(20), EvRst("high", TRUE), EvDelayMs(200)>>, <<>>)

\* duration in microseconds
delay(duration) == Prim("Ok", <<EvDelayUs(duration)>>, <<>>)

----------------------------------------------------------------------------
(* Commands and registers (command.rs, register.rs) *)

IT8951_TCON_SYS_RUN        == 1
IT8951_TCON_STANDBY        == 2
IT8951_TCON_SLEEP          == 3
IT8951_TCON_REG_RD         == 16
IT8951_TCON_REG_WR         == 17
IT8951_TCON_MEM_BST_RD_T   == 18
IT8951_TCON_MEM_BST_RD_S   == 19
IT8951_TCON_MEM_BST_WR     == 20
IT8951_TCON_MEM_BST_END    == 21
IT8951_TCON_LD_IMG         == 32
IT8951_TCON_LD_IMG_AREA    == 33
IT8951_TCON_LD_IMG_END     == 34
USDEF_I80_CMD_DPY_AREA     == 52
USDEF_I80_CMD_GET_DEV_INFO == 770
USDEF_I80_CMD_DPY_BUF_AREA == 55
USDEF_I80_CMD_VCOM         == 57

DISPLAY_REG_BASE == 4096
LUTAFSR          == DISPLAY_REG_BASE + 548
SYS_REG_BASE     == 0
I80CPCR          == SYS_REG_BASE + 4
MCSR_BASE_ADDR   == 512
LISAR            == MCSR_BASE_ADDR + 8

----------------------------------------------------------------------------
(* Errors of the driver (lib.rs Error) *)

\* impl From<interface::Error> for Error
From(e) ==
    CASE e = "SpiError"        -> "Interface(SpiError)"
      [] e = "GPIOError"       -> "Interface(GPIOError)"
      [] e = "BusyTimeout"     -> "Interface(BusyTimeout)"
      [] e = "BufferAlignment" -> "Interface(BufferAlignment)"

InterfaceErrors == {"SpiError", "GPIOError", "BusyTimeout", "BufferAlignment"}

DriverErrors == {From(e) : e \in InterfaceErrors} \cup {"DisplayEngineTimeout"}

----------------------------------------------------------------------------
(* A driver function as the sequence of interface calls it makes.  Each    *)
(* call is followed by `?` in the source: the function returns at the      *)
(* first call that fails.                                                  *)

PCmd(c)          == [p |-> "write_command",    w |-> c,  d |-> <<>>, rx |-> <<>>]
PData(v)         == [p |-> "write_data",       w |-> v,  d |-> <<>>, rx |-> <<>>]
PBlock(data)     == [p |-> "write_multi_data", w |-> 0,  d |-> data, rx |-> <<>>]
PRead(inb)       == [p |-> "read_data",        w |-> 0,  d |-> <<>>, rx |-> inb]
PReadMulti(n, inb) == [p |-> "read_multi_data", w |-> n, d |-> <<>>, rx |-> inb]
PWait            == [p |-> "wait_while_busy",  w |-> 0,  d |-> <<>>, rx |-> <<>>]
PReset           == [p |-> "reset",            w |-> 0,  d |-> <<>>, rx |-> <<>>]
PDelay(us)       == [p |-> "delay",            w |-> us, d |-> <<>>, rx |-> <<>>]

\* The environment of one driver call: the call's `at`-th interface call
\* (0: none) meets the busy line `line`, an SPI driver that fails unless
\* `spi`, and a reset pin whose `rst`-th write fails (0: none).  Every
\* other interface call finds the line ready and the drivers working.
NoFault == [at |-> 0, line |-> ReadyLine, spi |-> TRUE, rst |-> 0]

\* What the environment does to the call it hits: the line stays busy past
\* the budget, the busy pin fails after one busy poll, the SPI driver
\* fails, the reset pin fails.
FaultSample ==
    { [line |-> [busy |-> BusyBudget + 2, err |-> FALSE], spi |-> TRUE,  rst |-> 0],
      [line |-> [busy |-> 1,              err |-> TRUE],  spi |-> TRUE,  rst |-> 0],
      [line |-> ReadyLine,                                spi |-> FALSE, rst |-> 0],
      [line |-> ReadyLine,                                spi |-> TRUE,  rst |-> 2] }

\* The environments of a driver call that makes at most n interface calls
EnvsFor(n) ==
    {NoFault} \cup
    { [at |-> k, line |-> f.line, spi |-> f.spi, rst |-> f.rst] :
        k \in 1 .. n, f \in FaultSample }

LineAt(env, k) == IF k = env.at THEN env.line ELSE ReadyLine
SpiAt(env, k)  == k # env.at \/ env.spi
RstAt(env, k)  == IF k = env.at THEN env.rst ELSE 0

\* One interface call of a driver function
Call(c, env, k) ==
    CASE c.p = "write_command"    -> write_command(c.w, LineAt(env, k), SpiAt(env, k))
      [] c.p = "write_data"       -> write_data(c.w, LineAt(env, k), SpiAt(env, k))
      [] c.p = "write_multi_data" -> write_multi_data(c.d, LineAt(env, k), SpiAt(env, k))
      [] c.p = "read_data"        -> read_data(LineAt(env, k), SpiAt(env, k), c.rx)
      [] c.p = "read_multi_data"  -> read_multi_data(c.w, LineAt(env, k), SpiAt(env, k), c.rx)
      [] c.p = "wait_while_busy"  -> LET w == wait_while_busy(LineAt(env, k))
                                     IN  Prim(w.res, w.log, <<>>)
      [] c.p = "reset"            -> reset(RstAt(env, k))
      [] c.p = "delay"            -> delay(c.w)

\* The progress of a driver function: its result so far, the events, the
\* values read, and k, the number of interface calls made.
Start == [res |-> "Ok", log |-> <<>>, val |-> <<>>, k |-> 0]

\* The `?` operator: the error of a failed call ends the function
\* (converted with From), a success continues with the next call.
RECURSIVE Then(_, _, _)

\* `?` replaced by one more attempt of the call that failed
Then_retry(m0, calls0, env) ==
    CHOOSE out \in
        { IF m.res # "Ok" \/ calls = <<>> THEN m
          ELSE CHOOSE next \in
                 { IF r.res # "Ok"
                   THEN [res |-> From(r.res), log |-> m.log \o r.log \o r.log,
                         val |-> m.val, k |-> m.k + 1]
                   ELSE Then([res |-> "Ok", log |-> m.log \o r.log,
                              val |-> m.val \o r.val, k |-> m.k + 1],
                             Tail(calls), env) :
                   r \in {Call(Head(calls), env, m.k + 1)} } : TRUE :
          m \in {m0}, calls \in {calls0} } : TRUE

Then(m0, calls0, env) ==
    CHOOSE out \in
        { IF m.res # "Ok" \/ calls = <<>> THEN m
          ELSE CHOOSE next \in
                 { IF r.res # "Ok"
                   THEN [res |-> From(r.res), log |-> m.log \o r.log, val |-> m.val,
                         k |-> m.k + 1]
                   ELSE Then([res |-> "Ok", log |-> m.log \o r.log,
                              val |-> m.val \o r.val, k |-> m.k + 1],
                             Tail(calls), env) :
                   r \in {Call(Head(calls), env, m.k + 1)} } : TRUE :
          m \in {m0}, calls \in {calls0} } : TRUE

\* The result of a function of the interface, which returns the error of
\* the interface as it is
Raw(m) ==
    [m EXCEPT !.res = IF m.res = "Ok" THEN "Ok"
                      ELSE CHOOSE e \in InterfaceErrors : From(e) = m.res]

\* return Err(e) / a panic of the driver function itself
Fail(m, e) == IF m.res # "Ok" THEN m ELSE [m EXCEPT !.res = e]

\* The value the last read returned
LastVal(m) == m.val[Len(m.val)]

\* write_command_with_args that sends the arguments last to first
write_command_with_args_reversed(cmd, args) ==
    <<PCmd(cmd)>> \o [i \in 1 .. Len(args) |-> PData(args[Len(args) + 1 - i])]

\* fn write_command_with_args(cmd, args)
write_command_with_args(cmd, args) ==
    <<PCmd(cmd)>> \o [i \in 1 .. Len(args) |-> PData(args[i])]

\* fn read_register(reg): rx is what the controller answers
read_register(reg, rx) ==
    <<PCmd(IT8951_TCON_REG_RD), PData(reg), PRead(rx)>>

\* fn write_register(reg, data)
write_register(reg, data) ==
    <<PCmd(IT8951_TCON_REG_WR), PData(reg), PData(data)>>

\* fn get_vcom()
get_vcom(rx) ==
    <<PCmd(USDEF_I80_CMD_VCOM), PData(0), PRead(rx)>>

\* fn set_vcom(vcom)
set_vcom(vcom) ==
    <<PCmd(USDEF_I80_CMD_VCOM), PData(1), PData(vcom)>>

\* fn get_system_info(): the interface calls; rx is the 44-byte answer
get_system_info(rx) ==
    <<PCmd(USDEF_I80_CMD_GET_DEV_INFO), PWait, PReadMulti(20, rx)>>

\* fn sys_run(): the interface call
sys_run_calls == <<PCmd(IT8951_TCON_SYS_RUN)>>

----------------------------------------------------------------------------
(* Device info *)

\* buf_to_string that takes the high byte of a word first
RECURSIVE buf_to_string_high_first(_)
buf_to_string_high_first(buf) ==
    IF buf = <<>> THEN <<>>
    ELSE (IF Head(buf) # 0 THEN <<Head(buf) \div 256, Head(buf) % 256>> ELSE <<>>)
         \o buf_to_string_high_first(Tail(buf))

\* fn buf_to_string(buf): the characters (as code points) of the non-zero
\* words, low byte first
RECURSIVE buf_to_string(_)
buf_to_string(buf) ==
    IF buf = <<>> THEN <<>>
    ELSE LET raw == Head(buf)
         IN  (IF raw # 0 THEN <<raw % 256, raw \div 256>> ELSE <<>>)
             \o buf_to_string(Tail(buf))

\* The DevInfo that get_system_info builds from the 20 words read
DevInfo(buf) ==
    [ panel_width      |-> buf[1],
      panel_height     |-> buf[2],
      memory_address   |-> buf[4] * 65536 + buf[3],
      firmware_version |-> buf_to_string(SubSeq(buf, 5, 12)),
      lut_version      |-> buf_to_string(SubSeq(buf, 13, 20)) ]

\* The bytes of a sequence of words as the controller shifts them out
RECURSIVE WordsToBytes(_)
WordsToBytes(ws) ==
    IF ws = <<>> THEN <<>>
    ELSE <<Head(ws) \div 256, Head(ws) % 256>> \o WordsToBytes(Tail(ws))

\* What arrives during the 4 bytes before the payload of a read
JunkSample == {<<0, 0, 0, 0>>, <<255, 255, 171, 205>>}

\* Answers of the controller to GET_DEV_INFO (20 words)
DevWordsSample ==
    { <<4, 3, 4660, 18>>  \o <<22355, 12383, 0, 0, 0, 0, 0, 0>> \o <<77, 0, 13364, 0, 0, 0, 0, 0>>,
      <<5, 2, 65535, 0>>  \o <<65, 66, 67, 68, 69, 70, 71, 72>> \o <<256, 0, 0, 0, 0, 0, 0, 1>> }

VcomSample == {1670, 2000}

----------------------------------------------------------------------------
(* Configuration *)

\* Largest Config.timeout_display_engine (in polls of LUTAFSR)
MaxDisplayTimeout == 1

\* Largest Config.timeout_interface (in polls of the busy pin)
MaxInterfaceTimeout == 3

ConfigA == [timeout_display_engine |-> 0, timeout_interface |-> 1, max_buffer_size |-> 2]

ConfigB == [timeout_display_engine |-> MaxDisplayTimeout,
            timeout_interface |-> MaxInterfaceTimeout, max_buffer_size |-> 8]

\* A Config whose max_buffer_size is odd
ConfigC == [timeout_display_engine |-> 0, timeout_interface |-> 1, max_buffer_size |-> 3]

ConfigSample == {ConfigA, ConfigB, ConfigC}

\* The driver holds no Config yet
NoConfig == [timeout_display_engine |-> 0, timeout_interface |-> 0, max_buffer_size |-> 0]

\* MemoryConverterSetting::default()
McsDefault == [endianness |-> "LittleEndian", bit_per_pixel |-> "BitsPerPixel4",
               rotation |-> "Rotate0"]

Rotated(r) == [McsDefault EXCEPT !.rotation = r]

\* The (config, mcs) pairs given to new_with_mcs
SetupSample ==
    { <<ConfigA, McsDefault>>, <<ConfigB, Rotated("Rotate90")>>,
      <<ConfigA, Rotated("Rotate180")>>,
      <<ConfigB, [endianness |-> "BigEndian", bit_per_pixel |-> "BitsPerPixel8",
                  rotation |-> "Rotate270"]>> }

----------------------------------------------------------------------------
(* The calls *)

Idle == [name |-> "idle", w |-> <<>>, d |-> <<>>]

\* No serializer is being followed
NoSerializer == [kind |-> "none"]

\* The record of a finished call
Returned(name, w, d, r) ==
    /\ op'  = [name |-> name, w |-> w, d |-> d]
    /\ \E ret \in {r} :
        /\ res' = ret.res
        /\ val' = ret.val
        /\ log' = ret.log
    /\ UNCHANGED stepvars
    /\ UNCHANGED servars

Init ==
    /\ state = "NoDriver"
    /\ dev_info = <<>>
    /\ config = NoConfig
    /\ mcs = McsDefault
    /\ op = Idle
    /\ res = "Ok"
    /\ val = <<>>
    /\ log = <<>>
    /\ pc = "idle"
    /\ todo = <<>>
    /\ busy_counter = 0
    /\ lut_counter = 0
    /\ hw = "any"
    /\ ser = NoSerializer
    /\ emitted = <<>>

\* The caller takes the result of the call; the next call starts with an
\* empty record.
Continue ==
    /\ op.name # "idle"
    /\ op' = Idle
    /\ res' = "Ok"
    /\ val' = <<>>
    /\ log' = <<>>
    /\ UNCHANGED <<state, dev_info, config, mcs>>
    /\ UNCHANGED stepvars
    /\ UNCHANGED servars

\* IT8951::new_with_mcs(interface, config, mcs)
New ==
    /\ state = "NoDriver" /\ op.name = "idle"
    /\ \E setup \in SetupSample :
        /\ config' = setup[1]
        /\ mcs' = setup[2]
        /\ state' = "Off"
        /\ dev_info' = <<>>
        /\ Returned("new_with_mcs", <<>>, <<>>, Prim("Ok", <<>>, <<>>))

\* IT8951::new(interface, config):
\* new_with_mcs(interface, config, MemoryConverterSetting::default())
new ==
    /\ state = "NoDriver" /\ op.name = "idle"
    /\ \E cfg \in ConfigSample :
        /\ config' = cfg
        /\ mcs' = McsDefault
        /\ state' = "Off"
        /\ dev_info' = <<>>
        /\ Returned("new", <<>>, <<>>, Prim("Ok", <<>>, <<>>))

\* init that enables packed writes before it asks for the device info
init_result_reordered(vcom, info_rx, vcom_rx, env) ==
    LET m1 == Then(Start, <<PReset>>, env)
        m2 == Then(m1, sys_run_calls, env)
        m3 == Then(m2, write_register(I80CPCR, 1), env)
        m4 == Then(m3, get_system_info(info_rx), env)
    IN  CHOOSE out \in
            { IF m5.res # "Ok" THEN m5
              ELSE IF vcom # LastVal(m5) THEN Then(m5, set_vcom(vcom), env)
              ELSE m5 :
              m5 \in {Then(m4, get_vcom(vcom_rx), env)} } : TRUE

\* init that writes VCOM whatever the controller holds
init_result_always_sets(vcom, info_rx, vcom_rx, env) ==
    LET m1 == Then(Start, <<PReset>>, env)
        m2 == Then(m1, sys_run_calls, env)
        m3 == Then(m2, get_system_info(info_rx), env)
        m4 == Then(m3, write_register(I80CPCR, 1), env)
        m5 == Then(m4, get_vcom(vcom_rx), env)
    IN  Then(m5, set_vcom(vcom), env)

\* IT8951::init(self, vcom)
init_result(vcom, info_rx, vcom_rx, env) ==
    LET m1 == Then(Start, <<PReset>>, env)
        m2 == Then(m1, sys_run_calls, env)
        m3 == Then(m2, get_system_info(info_rx), env)
        m4 == Then(m3, write_register(I80CPCR, 1), env)
    IN  CHOOSE out \in
            { IF m5.res # "Ok" THEN m5
              ELSE IF vcom # LastVal(m5) THEN Then(m5, set_vcom(vcom), env)
              ELSE m5 :
              m5 \in {Then(m4, get_vcom(vcom_rx), env)} } : TRUE

init ==
    /\ state = "Off" /\ op.name = "idle"
    /\ \E vcom \in VcomSample, ws \in DevWordsSample, junk \in {<<255, 255, 0, 0>>},
          vr \in VcomSample :
        \E env \in EnvsFor(init_result(vcom, junk \o WordsToBytes(ws),
                                       junk \o WordsToBytes(<<vr>>), NoFault).k) :
        \E r \in {init_result(vcom, junk \o WordsToBytes(ws),
                              junk \o WordsToBytes(<<vr>>), env)} :
            /\ Returned("init", <<vcom>>, <<>>, r)
            /\ IF r.res = "Ok"
               THEN state' = "Run" /\ dev_info' = <<DevInfo(SubSeq(r.val, 1, 20))>>
               ELSE state' = "Consumed" /\ dev_info' = <<>>
    /\ UNCHANGED <<config, mcs>>

\* attach that pulses the reset line as init does
attach_result_reset(info_rx, env) ==
    Then(Then(Then(Start, <<PReset>>, env), sys_run_calls, env),
         get_system_info(info_rx), env)

\* IT8951::attach(interface, config)
attach_result(info_rx, env) ==
    Then(Then(Start, sys_run_calls, env), get_system_info(info_rx), env)

attach ==
    /\ state = "NoDriver" /\ op.name = "idle"
    /\ \E cfg \in {ConfigB}, ws \in DevWordsSample, junk \in {<<255, 255, 0, 0>>},
          env \in EnvsFor(attach_result(Zeros(44), NoFault).k) :
        \E r \in {attach_result(junk \o WordsToBytes(ws), env)} :
            /\ Returned("attach", <<>>, <<>>, r)
            /\ config' = cfg
            /\ mcs' = McsDefault
            /\ IF r.res = "Ok"
               THEN state' = "Run" /\ dev_info' = <<DevInfo(SubSeq(r.val, 1, 20))>>
               ELSE state' = "Consumed" /\ dev_info' = <<>>

\* A transition whose into_state does not carry the DevInfo over
Transition_drops_info(name, from, to, cmd) ==
    /\ state = from /\ op.name = "idle"
    /\ \E env \in EnvsFor(1) :
        \E r \in {Then(Start, <<PCmd(cmd)>>, env)} :
            /\ Returned(name, <<>>, <<>>, r)
            /\ state' = IF r.res = "Ok" THEN to ELSE "Consumed"
    /\ dev_info' = <<>>
    /\ UNCHANGED <<config, mcs>>

\* A transition that hands the handle back unchanged when it fails
Transition_keeps_handle(name, from, to, cmd) ==
    /\ state = from /\ op.name = "idle"
    /\ \E env \in EnvsFor(1) :
        \E r \in {Then(Start, <<PCmd(cmd)>>, env)} :
            /\ Returned(name, <<>>, <<>>, r)
            /\ state' = IF r.res = "Ok" THEN to ELSE from
    /\ UNCHANGED <<dev_info, config, mcs>>

\* A transition of the typestate that issues one command: on success the
\* handle is converted (into_state), on failure it is dropped with `self`.
Transition(name, from, to, cmd) ==
    /\ state = from /\ op.name = "idle"
    /\ \E env \in EnvsFor(1) :
        \E r \in {Then(Start, <<PCmd(cmd)>>, env)} :
            /\ Returned(name, <<>>, <<>>, r)
            /\ state' = IF r.res = "Ok" THEN to ELSE "Consumed"
    /\ UNCHANGED <<dev_info, config, mcs>>

\* sleep that issues the command of standby
sleep_standby == Transition("sleep", "Run", "PowerDown", IT8951_TCON_STANDBY)

\* IT8951<_, Run>::sleep(self)
sleep == Transition("sleep", "Run", "PowerDown", IT8951_TCON_SLEEP)

\* IT8951<_, Run>::standby(self)
standby == Transition("standby", "Run", "PowerDown", IT8951_TCON_STANDBY)

\* IT8951<_, PowerDown>::sys_run(self)
sys_run == Transition("sys_run", "PowerDown", "Run", IT8951_TCON_SYS_RUN)

Lifecycle == new \/ New \/ init \/ attach \/ sleep \/ standby \/ sys_run

----------------------------------------------------------------------------
(* Pixel format settings (memory_converter_settings.rs) *)

Endianness(e)  == IF e = "LittleEndian" THEN 0 ELSE 1

BitPerPixel(b) ==
    CASE b = "BitsPerPixel2" -> 0 [] b = "BitsPerPixel3" -> 1
      [] b = "BitsPerPixel4" -> 2 [] b = "BitsPerPixel8" -> 3

Rotation(r) ==
    CASE r = "Rotate0" -> 0 [] r = "Rotate90" -> 1
      [] r = "Rotate180" -> 2 [] r = "Rotate270" -> 3

\* a | b on unsigned integers
RECURSIVE BitOr(_, _)
BitOr(a, b) ==
    IF a = 0 THEN b
    ELSE IF b = 0 THEN a
    ELSE (IF a % 2 = 1 \/ b % 2 = 1 THEN 1 ELSE 0) + 2 * BitOr(a \div 2, b \div 2)

\* into_arg that shifts the bits per pixel by one bit only
into_arg_overlapping(m) ==
    BitOr(BitOr((Endianness(m.endianness) * 256) % 65536,
                (BitPerPixel(m.bit_per_pixel) * 2) % 65536),
          Rotation(m.rotation))

\* MemoryConverterSetting::into_arg
into_arg(m) ==
    BitOr(BitOr((Endianness(m.endianness) * 256) % 65536,
                (BitPerPixel(m.bit_per_pixel) * 16) % 65536),
          Rotation(m.rotation))

----------------------------------------------------------------------------
(* Areas and rotation (lib.rs) *)

AreaImgInfo(x, y, w, h) == [area_x |-> x, area_y |-> y, area_w |-> w, area_h |-> h]

\* size that ignores the rotation
size_unrotated(info, m) ==
    [width |-> info.panel_width, height |-> info.panel_height]

\* OriginDimensions::size
size(info, m) ==
    IF m.rotation \in {"Rotate0", "Rotate180"}
    THEN [width |-> info.panel_width, height |-> info.panel_height]
    ELSE [width |-> info.panel_height, height |-> info.panel_width]

\* rotate_area_info that measures Rotate90 and Rotate270 against the wrong
\* side of the panel
rotate_exact_wrong_side(info, m, area) ==
    LET pw == info.panel_width
        ph == info.panel_height
        x  == area.area_x
        y  == area.area_y
        w  == area.area_w
        h  == area.area_h
    IN  CASE m.rotation = "Rotate0"   -> <<x, y, w, h, 0, 0>>
          [] m.rotation = "Rotate90"  -> <<y, pw - w - x, h, w, 0, pw - w>>
          [] m.rotation = "Rotate180" -> <<pw - w - x, ph - h - y, w, h, pw - w, ph - h>>
          [] m.rotation = "Rotate270" -> <<ph - h - y, x, h, w, ph - h, 0>>

\* fn rotate_area_info: the u16 subtractions, as integers (a negative
\* coordinate is an underflow of the u16 arithmetic)
rotate_exact(info, m, area) ==
    LET pw == info.panel_width
        ph == info.panel_height
        x  == area.area_x
        y  == area.area_y
        w  == area.area_w
        h  == area.area_h
    IN  CASE m.rotation = "Rotate0"   -> <<x, y, w, h, 0, 0>>
          [] m.rotation = "Rotate90"  -> <<y, ph - w - x, h, w, 0, ph - w>>
          [] m.rotation = "Rotate180" -> <<pw - w - x, ph - h - y, w, h, pw - w, ph - h>>
          [] m.rotation = "Rotate270" -> <<pw - h - y, x, h, w, pw - h, 0>>

\* Whether one of the subtractions of rotate_area_info underflows
rotate_underflows(info, m, area) ==
    LET t == rotate_exact(info, m, area)
    IN  t[1] < 0 \/ t[2] < 0 \/ t[5] < 0 \/ t[6] < 0

\* rotate_area_info whose subtractions saturate at zero instead of wrapping
rotate_area_info_saturating(info, m, area) ==
    LET t == rotate_exact(info, m, area)
    IN  AreaImgInfo(IF t[1] < 0 THEN 0 ELSE t[1], IF t[2] < 0 THEN 0 ELSE t[2],
                    t[3], t[4])

\* The AreaImgInfo of rotate_area_info in a build without overflow checks
\* (the subtractions wrap)
rotate_area_info(info, m, area) ==
    LET t == rotate_exact(info, m, area)
    IN  AreaImgInfo(t[1] % 65536, t[2] % 65536, t[3], t[4])

----------------------------------------------------------------------------
(* Register/command layer of the running driver (lib.rs) *)

\* set_target_memory_addr that writes the low half first
set_target_memory_addr_low_first(target_mem_addr) ==
    write_register(LISAR, target_mem_addr % 65536)
    \o write_register(LISAR + 2, (target_mem_addr \div 65536) % 65536)

\* fn set_target_memory_addr
set_target_memory_addr(target_mem_addr) ==
    write_register(LISAR + 2, (target_mem_addr \div 65536) % 65536)
    \o write_register(LISAR, target_mem_addr % 65536)

\* fn load_image_area
load_image_area(m, target_mem_addr, image_settings, area_info, data, env) ==
    LET m1 == Then(m, set_target_memory_addr(target_mem_addr), env)
        m2 == Then(m1, write_command_with_args(IT8951_TCON_LD_IMG_AREA,
                          <<into_arg(image_settings), area_info.area_x, area_info.area_y,
                            area_info.area_w, area_info.area_h>>), env)
        m3 == Then(m2, <<PBlock(data)>>, env)
    IN  Then(m3, <<PCmd(IT8951_TCON_LD_IMG_END)>>, env)

\* fn load_image
load_image(m, target_mem_addr, image_settings, data, env) ==
    LET m1 == Then(m, set_target_memory_addr(target_mem_addr), env)
        m2 == Then(m1, <<PCmd(IT8951_TCON_LD_IMG)>>, env)
        m3 == Then(m2, <<PData(into_arg(image_settings))>>, env)
        m4 == Then(m3, <<PBlock(data)>>, env)
    IN  Then(m4, <<PCmd(IT8951_TCON_LD_IMG_END)>>, env)

\* fn memory_burst_read: n = data.len(), rx the bytes the controller sends
memory_burst_read(m, memory_address, n, rx, env) ==
    LET args == <<memory_address % 65536, (memory_address \div 65536) % 65536,
                  n % 65536, (n \div 65536) % 65536>>
        m1 == Then(m, write_command_with_args(IT8951_TCON_MEM_BST_RD_T, args), env)
        m2 == Then(m1, <<PCmd(IT8951_TCON_MEM_BST_RD_S)>>, env)
        m3 == Then(m2, <<PReadMulti(n, rx)>>, env)
    IN  Then(m3, <<PCmd(IT8951_TCON_MEM_BST_END)>>, env)

\* fn memory_burst_write: data is the byte buffer
memory_burst_write(m, memory_address, data, env) ==
    LET args == <<memory_address % 65536, (memory_address \div 65536) % 65536,
                  Len(data) % 65536, (Len(data) \div 65536) % 65536>>
        m1 == Then(m, write_command_with_args(IT8951_TCON_MEM_BST_WR, args), env)
        m2 == Then(m1, <<PBlock(data)>>, env)
    IN  Then(m2, <<PCmd(IT8951_TCON_MEM_BST_END)>>, env)

\* fn wait_for_display_ready.  lut_busy: how many reads of LUTAFSR the
\* controller answers with a non-zero value before it answers zero.
RECURSIVE wait_loop_display(_, _, _, _, _, _)
wait_loop_display(m, counter, timeout, lut_busy, junk, env) ==
    LET answer == IF counter < lut_busy THEN 1 ELSE 0
    IN  CHOOSE out \in
            { IF r.res # "Ok" THEN r
              ELSE IF 0 = LastVal(r) THEN r
              ELSE IF counter > timeout THEN Fail(r, "DisplayEngineTimeout")
              ELSE wait_loop_display(Then(r, <<PDelay(1)>>, env), counter + 1, timeout,
                                     lut_busy, junk, env) :
              r \in {Then(m, read_register(LUTAFSR, junk \o WordsToBytes(<<answer>>)),
                          env)} } : TRUE

\* wait_for_display_ready that does not ask the controller
wait_for_display_ready_unasked(m, timeout, lut_busy, junk, env) == m

wait_for_display_ready(m, timeout, lut_busy, junk, env) ==
    IF m.res # "Ok" THEN m
    ELSE wait_loop_display(m, 0, timeout, lut_busy, junk, env)

\* fn display_area.  checks: the build has overflow checks (a debug build)
display_area(m, info, mset, timeout, area_info, mode, checks, lut_busy, junk, env) ==
    IF checks /\ rotate_underflows(info, mset, area_info) THEN Fail(m, "panic")
    ELSE LET a  == rotate_area_info(info, mset, area_info)
             m1 == wait_for_display_ready(m, timeout, lut_busy, junk, env)
         IN  Then(m1, write_command_with_args(USDEF_I80_CMD_DPY_AREA,
                         <<a.area_x, a.area_y, a.area_w, a.area_h, mode>>), env)

\* fn display_area_buf
display_area_buf(m, info, mset, timeout, area_info, mode, addr, checks, lut_busy, junk, env) ==
    IF checks /\ rotate_underflows(info, mset, area_info) THEN Fail(m, "panic")
    ELSE LET a  == rotate_area_info(info, mset, area_info)
             m1 == wait_for_display_ready(m, timeout, lut_busy, junk, env)
         IN  Then(m1, write_command_with_args(USDEF_I80_CMD_DPY_BUF_AREA,
                         <<a.area_x, a.area_y, a.area_w, a.area_h, mode,
                           addr % 65536,
                           (addr \div 65536) % 65536>>), env)

\* display that takes the size of the panel for the size of the screen
display_panel_size(m, info, mset, timeout, mode, checks, lut_busy, junk, env) ==
    display_area(m, info, mset, timeout,
                 AreaImgInfo(0, 0, info.panel_width, info.panel_height),
                 mode, checks, lut_busy, junk, env)

\* fn display
display(m, info, mset, timeout, mode, checks, lut_busy, junk, env) ==
    LET sz == size(info, mset)
    IN  display_area(m, info, mset, timeout,
                     AreaImgInfo(0, 0, sz.width % 65536, sz.height % 65536),
                     mode, checks, lut_busy, junk, env)

----------------------------------------------------------------------------
(* Rectangles of the drawing interface (embedded-graphics) *)

Rect(x, y, w, h) == [x |-> x, y |-> y, w |-> w, h |-> h]

is_zero_sized(r) == r.w = 0 \/ r.h = 0

Max(a, b) == IF a >= b THEN a ELSE b
Min(a, b) == IF a <= b THEN a ELSE b

\* Rectangle::intersection: the common part, or a zero sized rectangle
intersection(a, b) ==
    LET x0 == Max(a.x, b.x)
        y0 == Max(a.y, b.y)
        x1 == Min(a.x + a.w, b.x + b.w)
        y1 == Min(a.y + a.h, b.y + b.h)
    IN  IF is_zero_sized(a) \/ is_zero_sized(b) \/ x1 <= x0 \/ y1 <= y0
        THEN Rect(0, 0, 0, 0)
        ELSE Rect(x0, y0, x1 - x0, y1 - y0)

\* DrawTarget::bounding_box: the rectangle at the origin with size()
bounding_box(info, m) == Rect(0, 0, size(info, m).width, size(info, m).height)

----------------------------------------------------------------------------
(* Fill serializer (area_serializer.rs, serialization_helper.rs) *)

\* a.div_ceil(b)
div_ceil(a, b) == (a + b - 1) \div b

\* get_entires_per_row that ignores the alignment of the left edge
get_entires_per_row_aligned(area) ==
    LET PIXEL_PER_WORD == 4
    IN  div_ceil(area.w, PIXEL_PER_WORD)

\* fn get_entires_per_row(area).  `area.top_left.x as u32 % 4`: the cast adds
\* a multiple of 2^32 to a negative x, which leaves the residue modulo 4
\* (the % of TLA+ is never negative).
get_entires_per_row(area) ==
    LET PIXEL_PER_WORD   == 4
        alignment_pixels == area.x % 4
    IN  div_ceil(area.w + alignment_pixels, PIXEL_PER_WORD)

RECURSIVE Repeat(_, _)
Repeat(x, n) == IF n <= 0 THEN <<>> ELSE <<x>> \o Repeat(x, n - 1)

\* AreaSerializer::new that takes at least one row per step
AreaSerializer_one_row(area, color, buffer_size) ==
    LET raw_color       == color
        data_entry      == BitOr((raw_color * 16) % 256, raw_color)
        entries_per_row == get_entires_per_row(area) * 2
        rows_per_step   == Max(1, Min(buffer_size \div entries_per_row, area.h))
    IN  [panic |-> "", area |-> area, rows_per_step |-> rows_per_step,
         buffer |-> Repeat(data_entry, entries_per_row * rows_per_step)]

\* AreaSerializer::new that leaves the high nibble of data_entry empty
AreaSerializer_low_nibble(area, color, buffer_size) ==
    LET raw_color       == color
        data_entry      == raw_color
        entries_per_row == get_entires_per_row(area) * 2
        rows_per_step   == Min(buffer_size \div entries_per_row, area.h)
    IN  IF buffer_size % 2 # 0 \/ entries_per_row = 0 \/ ~(rows_per_step > 0)
        THEN [panic |-> "assertion failed",
              area |-> area, rows_per_step |-> 0, buffer |-> <<>>]
        ELSE [panic |-> "", area |-> area, rows_per_step |-> rows_per_step,
              buffer |-> Repeat(data_entry, entries_per_row * rows_per_step)]

\* AreaSerializer::new that leaves the low nibble of data_entry empty
AreaSerializer_high_nibble(area, color, buffer_size) ==
    LET raw_color       == color
        data_entry      == (raw_color * 16) % 256
        entries_per_row == get_entires_per_row(area) * 2
        rows_per_step   == Min(buffer_size \div entries_per_row, area.h)
    IN  IF buffer_size % 2 # 0 \/ entries_per_row = 0 \/ ~(rows_per_step > 0)
        THEN [panic |-> "assertion failed",
              area |-> area, rows_per_step |-> 0, buffer |-> <<>>]
        ELSE [panic |-> "", area |-> area, rows_per_step |-> rows_per_step,
              buffer |-> Repeat(data_entry, entries_per_row * rows_per_step)]

\* AreaSerializer::new that asserts nothing and allocates buffer_size bytes
AreaSerializer_whole_cap(area, color, buffer_size) ==
    LET raw_color       == color
        data_entry      == BitOr((raw_color * 16) % 256, raw_color)
        entries_per_row == get_entires_per_row(area) * 2
        rows_per_step   == Max(1, Min(buffer_size \div Max(1, entries_per_row), area.h))
    IN  [panic |-> "", area |-> area, rows_per_step |-> rows_per_step,
         buffer |-> Repeat(data_entry, buffer_size)]

\* AreaSerializer::new: the serializer, or the assertion that fails
AreaSerializer(area, color, buffer_size) ==
    LET raw_color       == color
        data_entry      == BitOr((raw_color * 16) % 256, raw_color)
        entries_per_row == get_entires_per_row(area) * 2
        rows_per_step   == Min(buffer_size \div entries_per_row, area.h)
    IN  IF buffer_size % 2 # 0
        THEN [panic |-> "Buffer size must be aligned to u16",
              area |-> area, rows_per_step |-> 0, buffer |-> <<>>]
        ELSE IF entries_per_row = 0
        THEN [panic |-> "attempt to divide by zero",
              area |-> area, rows_per_step |-> 0, buffer |-> <<>>]
        ELSE IF ~(rows_per_step > 0)
        THEN [panic |-> "Buffer size to small for one row",
              area |-> area, rows_per_step |-> 0, buffer |-> <<>>]
        ELSE [panic |-> "", area |-> area, rows_per_step |-> rows_per_step,
              buffer |-> Repeat(data_entry, entries_per_row * rows_per_step)]

\* next() that gives every chunk the height rows_per_step
AreaSerializerIterator_next_unclamped(a, row) ==
    LET area_height == a.area.h
        start_row   == row
        next_row    == start_row + a.rows_per_step
    IN  IF row >= area_height THEN [item |-> <<>>, row |-> row]
        ELSE [item |-> << [info   |-> AreaImgInfo(a.area.x % 65536,
                                                  (a.area.y + start_row) % 65536,
                                                  a.area.w % 65536,
                                                  (next_row - start_row) % 65536),
                           buffer |-> a.buffer] >>,
              row  |-> next_row]

\* AreaSerializerIterator::next with self.row = row: the item returned
\* (<<>> for None) and self.row afterwards
AreaSerializerIterator_next(a, row) ==
    LET area_height == a.area.h
        start_row   == row
        next_row    == Min(start_row + a.rows_per_step, area_height)
    IN  IF row >= area_height THEN [item |-> <<>>, row |-> row]
        ELSE [item |-> << [info   |-> AreaImgInfo(a.area.x % 65536,
                                                  (a.area.y + start_row) % 65536,
                                                  a.area.w % 65536,
                                                  (next_row - start_row) % 65536),
                           buffer |-> a.buffer] >>,
              row  |-> next_row]

\* The iterator from row `row` to the end: the chunks of a for loop
RECURSIVE AreaSerializerIterator(_, _)
AreaSerializerIterator(a, row) ==
    LET n == AreaSerializerIterator_next(a, row)
    IN  IF n.item = <<>> THEN <<>>
        ELSE n.item \o AreaSerializerIterator(a, n.row)

----------------------------------------------------------------------------
(* Pixel serializer (pixel_serializer.rs) *)

\* x / n of Rust on i32: the quotient is rounded towards zero
quot(x, n) == IF x >= 0 THEN x \div n ELSE 0 - ((0 - x) \div n)

\* x % n of Rust on i32: the remainder has the sign of x
rem(x, n) == IF x >= 0 THEN x % n ELSE 0 - ((0 - x) % n)

\* Rectangle::points: the points of the rectangle, row by row
points(area) ==
    [i \in 1 .. area.w * area.h |->
        [x |-> area.x + ((i - 1) % area.w), y |-> area.y + ((i - 1) \div area.w)]]

\* Rectangle::contains
contains(r, p) ==
    /\ ~is_zero_sized(r)
    /\ p.x >= r.x /\ p.x < r.x + r.w
    /\ p.y >= r.y /\ p.y < r.y + r.h

\* convert_color_to_pixel_iterator that numbers the colours by the points
\* it keeps
convert_color_to_pixel_iterator_late(area, bounding_box_, colors) ==
    LET drawable_area == intersection(area, bounding_box_)
        inside(p)     == contains(drawable_area, p)
        kept          == SelectSeq(points(area), inside)
    IN  [i \in 1 .. Min(Len(kept), Len(colors)) |->
            [x |-> kept[i].x, y |-> kept[i].y, luma |-> colors[i]]]

\* fn convert_color_to_pixel_iterator: area.points().zip(colors), of which
\* the points in the drawable area are kept
convert_color_to_pixel_iterator(area, bounding_box_, colors) ==
    LET drawable_area == intersection(area, bounding_box_)
        pts           == points(area)
        zipped        == [i \in 1 .. Min(Len(pts), Len(colors)) |->
                            [x |-> pts[i].x, y |-> pts[i].y, luma |-> colors[i]]]
        inside(px)    == contains(drawable_area, px)
    IN  SelectSeq(zipped, inside)

\* The for loop with the first pixel of a word in its highest nibble
RECURSIVE pixel_row_high_first(_, _, _, _, _)
pixel_row_high_first(area, pixels, bytes, pixel_counter, checks) ==
    IF pixels = <<>>
    THEN [bytes |-> bytes, pixels |-> pixels, pixel_counter |-> pixel_counter,
          panic |-> FALSE]
    ELSE LET px       == Head(pixels)
             byte_pos == quot(px.x - quot(area.x, 4) * 4, 4)
             shift    == (3 - rem(px.x, 4)) * 4
             pushed   == IF Len(bytes) <= byte_pos THEN Append(bytes, 0) ELSE bytes
             written  == [pushed EXCEPT ![byte_pos + 1] =
                            BitOr(@, (px.luma * (2 ^ shift)) % 65536)]
         IN  IF px.x >= area.x + area.w - 1
             THEN [bytes |-> written, pixels |-> Tail(pixels),
                   pixel_counter |-> pixel_counter + 1, panic |-> FALSE]
             ELSE pixel_row_high_first(area, Tail(pixels), written, pixel_counter + 1,
                                       checks)

\* The for loop of PixelSerializer::next.  checks: the build has overflow
\* checks, and a negative shift amount panics; without them the amount is
\* taken modulo 16.  An index past the end of bytes panics in every build.
RECURSIVE pixel_row(_, _, _, _, _)
pixel_row(area, pixels, bytes, pixel_counter, checks) ==
    IF pixels = <<>>
    THEN [bytes |-> bytes, pixels |-> pixels, pixel_counter |-> pixel_counter,
          panic |-> FALSE]
    ELSE LET px       == Head(pixels)
             byte_pos == quot(px.x - quot(area.x, 4) * 4, 4)
             shift    == rem(px.x, 4) * 4
             pushed   == IF byte_pos < 0 \/ Len(bytes) <= byte_pos
                         THEN Append(bytes, 0) ELSE bytes
             written  == [pushed EXCEPT ![byte_pos + 1] =
                            BitOr(@, (px.luma * (2 ^ (shift % 16))) % 65536)]
         IN  IF (checks /\ shift < 0) \/ byte_pos < 0 \/ byte_pos >= Len(pushed)
             THEN [bytes |-> bytes, pixels |-> Tail(pixels),
                   pixel_counter |-> pixel_counter, panic |-> TRUE]
             ELSE IF px.x >= area.x + area.w - 1
             THEN [bytes |-> written, pixels |-> Tail(pixels),
                   pixel_counter |-> pixel_counter + 1, panic |-> FALSE]
             ELSE pixel_row(area, Tail(pixels), written, pixel_counter + 1, checks)

\* next() that numbers the rows from 1
PixelSerializer_next_row1(area, pixels, row, checks) ==
    LET r == pixel_row(area, pixels, <<>>, 0, checks)
    IN  [row    |-> row + 1,
         pixels |-> r.pixels,
         panic  |-> r.panic,
         item   |-> IF r.panic \/ r.bytes = <<>> THEN <<>>
                    ELSE << [info   |-> AreaImgInfo(area.x % 65536,
                                                    (area.y + (row + 1)) % 65536,
                                                    r.pixel_counter, 1),
                             buffer |-> r.bytes] >>]

\* PixelSerializer::next with self.row = row and self.pixels = pixels: the
\* item returned (<<>> for None), self.row and self.pixels afterwards
PixelSerializer_next(area, pixels, row, checks) ==
    LET r == pixel_row(area, pixels, <<>>, 0, checks)
    IN  [row    |-> row + 1,
         pixels |-> r.pixels,
         panic  |-> r.panic,
         item   |-> IF r.panic \/ r.bytes = <<>> THEN <<>>
                    ELSE << [info   |-> AreaImgInfo(area.x % 65536,
                                                    (area.y + (row + 1) - 1) % 65536,
                                                    r.pixel_counter, 1),
                             buffer |-> r.bytes] >>]

----------------------------------------------------------------------------
(* The drawing interface of the running driver (lib.rs DrawTarget) *)

\* for (area_img_info, buffer) in area_iter { self.load_image_area(..)?; }
RECURSIVE load_chunks(_, _, _, _, _)
load_chunks(m0, memory_address, mset, chunks0, env) ==
    CHOOSE out \in
        { IF m.res # "Ok" \/ chunks = <<>> THEN m
          ELSE load_chunks(load_image_area(m, memory_address, mset, Head(chunks).info,
                                           Head(chunks).buffer, env),
                           memory_address, mset, Tail(chunks), env) :
          m \in {m0}, chunks \in {chunks0} } : TRUE

\* fill_solid that serializes the requested area as it is given
fill_solid_unclipped(m, info, mset, cfg, rect, color, env) ==
    LET a == AreaSerializer(rect, color, cfg.max_buffer_size)
    IN  IF is_zero_sized(rect) THEN m
        ELSE IF a.panic # "" THEN Fail(m, "panic")
        ELSE load_chunks(m, info.memory_address, mset, AreaSerializerIterator(a, 0), env)

\* fn fill_solid(area, color)
fill_solid(m, info, mset, cfg, rect, color, env) ==
    LET area == intersection(rect, bounding_box(info, mset))
        a    == AreaSerializer(area, color, cfg.max_buffer_size)
    IN  IF is_zero_sized(area) THEN m
        ELSE IF a.panic # "" THEN Fail(m, "panic")
        ELSE load_chunks(m, info.memory_address, mset, AreaSerializerIterator(a, 0), env)

\* fn clear(color)
clear(m, info, mset, cfg, color, env) ==
    LET sz == size(info, mset)
    IN  fill_solid(m, info, mset, cfg, Rect(0, 0, sz.width, sz.height), color, env)

\* draw_iter that skips a pixel unless both coordinates are inside the size
RECURSIVE draw_iter_clipped(_, _, _, _, _, _)
draw_iter_clipped(m0, info, mset, pixels, checks, env) ==
  CHOOSE out \in {
    IF m.res # "Ok" \/ pixels = <<>> THEN m
    ELSE LET px     == Head(pixels)
             sz     == size(info, mset)
             width  == sz.width
             height == sz.height
             shift  == rem(px.x, 2) * 4
             value  == (px.luma * (2 ^ (shift % 8))) % 256
             data   == IF rem(px.x, 4) > 1 THEN <<value, 0>> ELSE <<0, value>>
         IN  IF (px.x >= 0 /\ px.x < width) /\ (px.y >= 0 /\ px.y < height)
             THEN draw_iter_clipped(
                         load_image_area(m, info.memory_address, mset,
                                         AreaImgInfo(px.x % 65536, px.y % 65536, 1, 1),
                                         data, env),
                         info, mset, Tail(pixels), checks, env)
             ELSE draw_iter_clipped(m, info, mset, Tail(pixels), checks, env) :
    m \in {m0} } : TRUE

\* draw_iter that stores the byte of the pixels 0 and 1 first
RECURSIVE draw_iter_low_byte_first(_, _, _, _, _, _)
draw_iter_low_byte_first(m0, info, mset, pixels, checks, env) ==
  CHOOSE out \in {
    IF m.res # "Ok" \/ pixels = <<>> THEN m
    ELSE LET px     == Head(pixels)
             sz     == size(info, mset)
             width  == sz.width
             height == sz.height
             shift  == rem(px.x, 2) * 4
             value  == (px.luma * (2 ^ (shift % 8))) % 256
             data   == IF rem(px.x, 4) > 1 THEN <<0, value>> ELSE <<value, 0>>
         IN  IF (px.x >= 0 /\ px.x < width) \/ (px.y >= 0 \/ px.y < height)
             THEN IF checks /\ shift < 0 THEN Fail(m, "panic")
                  ELSE draw_iter_low_byte_first(
                         load_image_area(m, info.memory_address, mset,
                                         AreaImgInfo(px.x % 65536, px.y % 65536, 1, 1),
                                         data, env),
                         info, mset, Tail(pixels), checks, env)
             ELSE draw_iter_low_byte_first(m, info, mset, Tail(pixels), checks, env) :
    m \in {m0} } : TRUE

\* fn draw_iter(pixels).  A pixel is [x, y, luma].  checks: the build has
\* overflow checks, and a negative shift amount panics; without them the
\* shift amount is taken modulo 8.
RECURSIVE draw_iter(_, _, _, _, _, _)
draw_iter(m0, info, mset, pixels, checks, env) ==
  CHOOSE out \in {
    IF m.res # "Ok" \/ pixels = <<>> THEN m
    ELSE LET px     == Head(pixels)
             sz     == size(info, mset)
             width  == sz.width
             height == sz.height
             shift  == rem(px.x, 2) * 4
             value  == (px.luma * (2 ^ (shift % 8))) % 256
             data   == IF rem(px.x, 4) > 1 THEN <<value, 0>> ELSE <<0, value>>
         IN  IF (px.x >= 0 /\ px.x < width) \/ (px.y >= 0 \/ px.y < height)
             THEN IF checks /\ shift < 0 THEN Fail(m, "panic")
                  ELSE draw_iter(
                         load_image_area(m, info.memory_address, mset,
                                         AreaImgInfo(px.x % 65536, px.y % 65536, 1, 1),
                                         data, env),
                         info, mset, Tail(pixels), checks, env)
             ELSE draw_iter(m, info, mset, Tail(pixels), checks, env) :
    m \in {m0} } : TRUE

\* IT8951::reset (of the running driver): clear to white, then display
it8951_reset(m, info, mset, cfg, checks, lut_busy, junk, env) ==
    CHOOSE out \in
        { IF m1.res # "Ok" THEN m1
          ELSE display(m1, info, mset, cfg.timeout_display_engine, 0, checks, lut_busy,
                       junk, env) :
          m1 \in {clear(m, info, mset, cfg, 15, env)} } : TRUE

----------------------------------------------------------------------------
(* Direct calls of the interface (trait IT8951Interface), made by the      *)
(* owner of the interface before a driver takes it over.                   *)

BlockByteSample == {0, 170, 255}

\* The interface is in the hands of its owner and no call is in progress
OnInterface == state = "NoDriver" /\ op.name = "idle"

InterfaceCall(name, w, d, r) ==
    /\ Returned(name, w, d, r)
    /\ UNCHANGED <<state, dev_info, config, mcs>>

call_wait_while_busy ==
    /\ OnInterface
    /\ \E line \in Lines :
        LET w == wait_while_busy(line)
        IN  InterfaceCall("wait_while_busy", <<>>, <<>>, Prim(w.res, w.log, <<>>))

call_write_data ==
    /\ OnInterface
    /\ \E data \in WordSample, line \in Lines, spi_ok \in BOOLEAN :
        InterfaceCall("write_data", <<data>>, <<>>, write_data(data, line, spi_ok))

call_write_multi_data ==
    /\ OnInterface
    /\ \E data \in SeqsUpTo(BlockByteSample, MaxBlockLen), line \in Lines, spi_ok \in BOOLEAN :
        InterfaceCall("write_multi_data", <<>>, data, write_multi_data(data, line, spi_ok))

call_write_command ==
    /\ OnInterface
    /\ \E cmd \in WordSample, line \in Lines, spi_ok \in BOOLEAN :
        InterfaceCall("write_command", <<cmd>>, <<>>, write_command(cmd, line, spi_ok))

call_write_command_with_args ==
    /\ OnInterface
    /\ \E cmd \in {IT8951_TCON_REG_WR, USDEF_I80_CMD_GET_DEV_INFO},
       args \in SeqsUpTo({1, 43981}, 2), env \in EnvsFor(3) :
        InterfaceCall("write_command_with_args", <<cmd>> \o args, <<>>,
                      Raw(Then(Start, write_command_with_args(cmd, args), env)))

call_read_data ==
    /\ OnInterface
    /\ \E junk \in JunkSample, hi \in ByteSample, lo \in ByteSample,
       line \in Lines, spi_ok \in BOOLEAN :
        InterfaceCall("read_data", <<>>, <<>>, read_data(line, spi_ok, junk \o <<hi, lo>>))

call_read_multi_data ==
    /\ OnInterface
    /\ \E n \in 0 .. MaxReadWords, junk \in JunkSample, line \in Lines, spi_ok \in BOOLEAN :
        \E payload \in SeqsOfLen({1, 255}, 2 * n) :
            InterfaceCall("read_multi_data", <<n>>, <<>>,
                          read_multi_data(n, line, spi_ok, junk \o payload))

call_reset ==
    /\ OnInterface
    /\ \E gpio_fail \in 0 .. 3 :
        InterfaceCall("reset", <<>>, <<>>, reset(gpio_fail))

call_delay ==
    /\ OnInterface
    /\ \E us \in {1, 1000} :
        InterfaceCall("delay", <<us>>, <<>>, delay(us))

Interface ==
    \/ call_wait_while_busy
    \/ call_write_data
    \/ call_write_multi_data
    \/ call_write_command
    \/ call_write_command_with_args
    \/ call_read_data
    \/ call_read_multi_data
    \/ call_reset
    \/ call_delay

----------------------------------------------------------------------------
(* Calls of the running driver: impl IT8951<_, Run> and its DrawTarget.    *)
(* The methods exist on the Run typestate only.                            *)

RunOps == {"get_dev_info", "size", "enhance_driving_capability", "IT8951::reset", "load_image",
           "load_image_area", "memory_burst_read", "memory_burst_write",
           "display_area", "display_area_buf", "display", "clear", "fill_solid",
           "draw_iter"}

\* The methods of the running driver declared for every handle that has
\* been initialized, also the one in power down
HasRunMethods_PowerDown(st) == st \in {"Run", "PowerDown"}

\* Whether the handle has the methods of impl IT8951<_, Run>
HasRunMethods(st) == st = "Run"

AddrSample == {1184308}

ModeSample == {2}

ColorSample == {10}

DataSample == {<<>>, <<170, 187>>, <<1, 2, 3>>}

AreaSample == {AreaImgInfo(0, 0, 1, 1), AreaImgInfo(1, 2, 3, 2)}

RectSample == {Rect(3, 1, 3, 2), Rect(0 - 1, 0 - 1, 3, 2), Rect(20, 20, 2, 2),
               Rect(1, 1, 0, 4)}

PixelSample == {[x |-> 0, y |-> 0, luma |-> 10], [x |-> 3, y |-> 1, luma |-> 12],
                [x |-> 0 - 1, y |-> 2, luma |-> 1], [x |-> 9, y |-> 9, luma |-> 15],
                [x |-> 1, y |-> 1, luma |-> 7], [x |-> 2, y |-> 0, luma |-> 5]}

\* Largest number of pixels of a draw_iter call
MaxPixels == 1

\* The answers of LUTAFSR: none, some, or more non-zero reads than the
\* timeout allows
LutBusySample(cfg) == 0 .. cfg.timeout_display_engine + 2

\* The handle has the methods of the running driver and no call is in progress
OnRun == HasRunMethods(state) /\ op.name = "idle"

RunCall(name, w, d, r) ==
    /\ Returned(name, w, d, r)
    /\ UNCHANGED <<state, dev_info, config, mcs>>

\* self.dev_info.unwrap() / expect(..): the DevInfo, or a panic
NeedsInfo(r) == IF dev_info = <<>> THEN Fail(Start, "panic") ELSE r

Info == dev_info[1]

get_dev_info ==
    /\ OnRun
    /\ RunCall("get_dev_info", <<>>, <<>>,
            NeedsInfo([Start EXCEPT !.val = <<Info>>]))

call_size ==
    /\ OnRun
    /\ RunCall("size", <<>>, <<>>,
            NeedsInfo([Start EXCEPT !.val = <<size(Info, mcs).width, size(Info, mcs).height>>]))

enhance_driving_capability ==
    /\ OnRun
    /\ \E env \in EnvsFor(3) :
        RunCall("enhance_driving_capability", <<>>, <<>>,
                Then(Start, write_register(56, 1538), env))

call_it8951_reset ==
    /\ OnRun
    /\ \E checks \in BOOLEAN, junk \in {<<0, 0, 0, 0>>}, lut_busy \in LutBusySample(config) :
      \E env \in EnvsFor(NeedsInfo(it8951_reset(Start, Info, mcs, config, checks, lut_busy,
                                                junk, NoFault)).k) :
        RunCall("IT8951::reset", <<>>, <<>>,
                NeedsInfo(it8951_reset(Start, Info, mcs, config, checks, lut_busy, junk, env)))

call_load_image ==
    /\ OnRun
    /\ \E addr \in AddrSample, data \in DataSample :
      \E env \in EnvsFor(load_image(Start, addr, mcs, data, NoFault).k) :
        RunCall("load_image", <<addr>>, data, load_image(Start, addr, mcs, data, env))

call_load_image_area ==
    /\ OnRun
    /\ \E addr \in AddrSample, area \in AreaSample, data \in DataSample :
      \E env \in EnvsFor(load_image_area(Start, addr, mcs, area, data, NoFault).k) :
        RunCall("load_image_area",
                <<addr, area.area_x, area.area_y, area.area_w, area.area_h>>, data,
                load_image_area(Start, addr, mcs, area, data, env))

call_memory_burst_read ==
    /\ OnRun
    /\ \E addr \in AddrSample, n \in 0 .. MaxReadWords, junk \in {<<0, 0, 0, 0>>} :
        \E payload \in SeqsOfLen({1, 255}, 2 * n),
           env \in EnvsFor(memory_burst_read(Start, addr, n, Zeros(2 * n + 4), NoFault).k) :
            RunCall("memory_burst_read", <<addr, n>>, <<>>,
                    memory_burst_read(Start, addr, n, junk \o payload, env))

call_memory_burst_write ==
    /\ OnRun
    /\ \E addr \in AddrSample, data \in DataSample :
      \E env \in EnvsFor(memory_burst_write(Start, addr, data, NoFault).k) :
        RunCall("memory_burst_write", <<addr>>, data,
                memory_burst_write(Start, addr, data, env))

call_display_area ==
    /\ OnRun
    /\ \E area \in AreaSample, mode \in ModeSample, checks \in BOOLEAN,
       junk \in {<<0, 0, 0, 0>>}, lut_busy \in LutBusySample(config) :
      \E env \in EnvsFor(NeedsInfo(display_area(Start, Info, mcs,
                               config.timeout_display_engine, area, mode, checks,
                               lut_busy, junk, NoFault)).k) :
        RunCall("display_area",
                <<area.area_x, area.area_y, area.area_w, area.area_h, mode>>, <<>>,
                NeedsInfo(display_area(Start, Info, mcs, config.timeout_display_engine,
                                       area, mode, checks, lut_busy, junk, env)))

call_display_area_buf ==
    /\ OnRun
    /\ \E area \in AreaSample, mode \in ModeSample, addr \in AddrSample, checks \in BOOLEAN,
       junk \in {<<0, 0, 0, 0>>}, lut_busy \in LutBusySample(config) :
      \E env \in EnvsFor(NeedsInfo(display_area_buf(Start, Info, mcs,
                               config.timeout_display_engine, area, mode, addr, checks,
                               lut_busy, junk, NoFault)).k) :
        RunCall("display_area_buf",
                <<area.area_x, area.area_y, area.area_w, area.area_h, mode, addr>>, <<>>,
                NeedsInfo(display_area_buf(Start, Info, mcs, config.timeout_display_engine,
                                           area, mode, addr, checks, lut_busy, junk, env)))

call_display ==
    /\ OnRun
    /\ \E mode \in ModeSample, junk \in {<<0, 0, 0, 0>>}, lut_busy \in LutBusySample(config) :
      \E env \in EnvsFor(NeedsInfo(display(Start, Info, mcs, config.timeout_display_engine,
                                           mode, TRUE, lut_busy, junk, NoFault)).k) :
        RunCall("display", <<mode>>, <<>>,
                NeedsInfo(display(Start, Info, mcs, config.timeout_display_engine,
                                  mode, TRUE, lut_busy, junk, env)))

call_clear ==
    /\ OnRun
    /\ \E color \in ColorSample :
      \E env \in EnvsFor(NeedsInfo(clear(Start, Info, mcs, config, color, NoFault)).k) :
        RunCall("clear", <<color>>, <<>>,
                NeedsInfo(clear(Start, Info, mcs, config, color, env)))

call_fill_solid ==
    /\ OnRun
    /\ \E rect \in RectSample, color \in ColorSample :
      \E env \in EnvsFor(NeedsInfo(fill_solid(Start, Info, mcs, config, rect, color,
                                              NoFault)).k) :
        RunCall("fill_solid", <<rect.x, rect.y, rect.w, rect.h, color>>, <<>>,
                NeedsInfo(fill_solid(Start, Info, mcs, config, rect, color, env)))

call_draw_iter ==
    /\ OnRun
    /\ \E pixels \in SeqsUpTo(PixelSample, MaxPixels), checks \in BOOLEAN :
      \E env \in EnvsFor(NeedsInfo(draw_iter(Start, Info, mcs, pixels, checks, NoFault)).k) :
        RunCall("draw_iter",
                [i \in 1 .. 3 * Len(pixels) |->
                    LET px == pixels[((i - 1) \div 3) + 1]
                    IN  CASE i % 3 = 1 -> px.x [] i % 3 = 2 -> px.y [] OTHER -> px.luma],
                <<>>,
                NeedsInfo(draw_iter(Start, Info, mcs, pixels, checks, env)))

Running ==
    \/ get_dev_info
    \/ call_size
    \/ enhance_driving_capability
    \/ call_it8951_reset
    \/ call_load_image
    \/ call_load_image_area
    \/ call_memory_burst_read
    \/ call_memory_burst_write
    \/ call_display_area
    \/ call_display_area_buf
    \/ call_display
    \/ call_clear
    \/ call_fill_solid
    \/ call_draw_iter

\* A call of a method of impl IT8951<_, Run> on a handle of another
\* typestate: the type has no such method, the program is rejected by the
\* compiler and nothing runs.
no_method ==
    /\ ~HasRunMethods(state) /\ state \in {"Off", "PowerDown"} /\ op.name = "idle"
    /\ \E name \in RunOps :
        Returned(name, <<>>, <<>>, Prim("no method", <<>>, <<>>))
    /\ UNCHANGED <<state, dev_info, config, mcs>>

Next == Lifecycle \/ Interface \/ Running \/ no_method \/ Continue

Spec == Init /\ [][Next]_vars

----------------------------------------------------------------------------
(* A call of the running driver followed step by step: one step per poll   *)
(* of the busy pin, per transfer and per turn of wait_for_display_ready.   *)
(* `log` holds the events of the last step.  The controller decides every  *)
(* reading; a stuck controller keeps the busy line low ("stuck_busy") or   *)
(* keeps LUTAFSR non-zero ("stuck_lut") while the pins and the SPI driver  *)
(* work.                                                                   *)

HwSample == {"any", "stuck_busy", "stuck_lut"}

\* The turn of the loop of wait_for_display_ready after read_register
PCheck   == [p |-> "check", w |-> 0, d |-> <<>>, rx |-> <<>>]

\* while 0 != self.read_register(register::LUTAFSR)? { .. }
PLutWait == read_register(LUTAFSR, <<>>) \o <<PCheck>>

\* The calls a driver function makes while nothing fails
StepPrograms(info, mset) ==
    { [name |-> "enhance_driving_capability", calls |-> write_register(56, 1538)],
      [name |-> "memory_burst_write",
       calls |-> write_command_with_args(IT8951_TCON_MEM_BST_WR, <<4660, 18, 2, 0>>)
                 \o <<PBlock(<<170, 187>>), PCmd(IT8951_TCON_MEM_BST_END)>>],
      [name |-> "memory_burst_read",
       calls |-> write_command_with_args(IT8951_TCON_MEM_BST_RD_T, <<4660, 18, 1, 0>>)
                 \o <<PCmd(IT8951_TCON_MEM_BST_RD_S), PReadMulti(1, <<>>),
                      PCmd(IT8951_TCON_MEM_BST_END)>>],
      [name |-> "display_area",
       calls |-> PLutWait
                 \o write_command_with_args(USDEF_I80_CMD_DPY_AREA,
                        LET a == rotate_area_info(info, mset, AreaImgInfo(0, 0, 1, 1))
                        IN  <<a.area_x, a.area_y, a.area_w, a.area_h, 2>>)] }

\* The driver is running and a call starts
Begin ==
    /\ pc = "idle" /\ HasRunMethods(state)
    /\ \E prog \in StepPrograms(Info, mcs), mode \in HwSample :
        /\ op' = [name |-> prog.name, w |-> <<>>, d |-> <<>>]
        /\ todo' = prog.calls
        /\ hw' = mode
    /\ pc' = "call"
    /\ res' = "pending"
    /\ val' = <<>>
    /\ log' = <<>>
    /\ busy_counter' = 0
    /\ lut_counter' = 0
    /\ UNCHANGED <<ser, emitted, state, dev_info, config, mcs>>

\* The call returns r
Finish(r, events) ==
    /\ pc' = "idle"
    /\ res' = r
    /\ log' = events
    /\ todo' = <<>>
    /\ UNCHANGED <<ser, emitted, state, dev_info, config, mcs, op, val, busy_counter, lut_counter, hw>>

\* wait_while_busy that does not count its polls
BumpBusy_stuck(c) == c

\* counter += 1 in wait_while_busy
BumpBusy(c) == c + 1

\* counter += 1 in wait_for_display_ready
BumpLut(c) == c + 1

\* The next interface call of the function starts, or the function returns
Enter ==
    /\ pc = "call"
    /\ IF todo = <<>> THEN Finish("Ok", <<>>)
       ELSE LET c == Head(todo)
            IN  CASE c.p = "check" ->
                       IF 0 = LastVal([val |-> val])
                       THEN /\ todo' = Tail(todo)
                            /\ log' = <<>>
                            /\ UNCHANGED <<ser, emitted, state, dev_info, config, mcs, op, res, val, pc,
                                           busy_counter, lut_counter, hw>>
                       ELSE IF lut_counter > config.timeout_display_engine
                       THEN Finish("DisplayEngineTimeout", <<>>)
                       ELSE /\ lut_counter' = BumpLut(lut_counter)
                            /\ todo' = <<PDelay(1)>> \o PLutWait \o Tail(todo)
                            /\ log' = <<>>
                            /\ UNCHANGED <<ser, emitted, state, dev_info, config, mcs, op, res, val, pc,
                                           busy_counter, hw>>
                  [] c.p = "delay" ->
                       /\ todo' = Tail(todo)
                       /\ log' = delay(c.w).log
                       /\ UNCHANGED <<ser, emitted, state, dev_info, config, mcs, op, res, val, pc,
                                      busy_counter, lut_counter, hw>>
                  [] OTHER ->
                       /\ pc' = "wait"
                       /\ busy_counter' = 0
                       /\ log' = <<>>
                       /\ UNCHANGED <<ser, emitted, state, dev_info, config, mcs, op, res, val, todo,
                                      lut_counter, hw>>

\* What the busy pin can read
Readings == IF hw = "stuck_busy" THEN {"busy"}
            ELSE IF hw = "stuck_lut" THEN {"ready"}
            ELSE {"busy", "ready", "err"}

\* One turn of the loop of wait_while_busy
Poll ==
    /\ pc = "wait"
    /\ \E reading \in Readings :
        IF reading = "err" THEN Finish(From("GPIOError"), <<EvPoll(reading)>>)
        ELSE IF reading = "ready"
        THEN /\ pc' = IF Head(todo).p = "wait_while_busy" THEN "call" ELSE "transfer"
             /\ todo' = IF Head(todo).p = "wait_while_busy" THEN Tail(todo) ELSE todo
             /\ log' = <<EvPoll(reading)>>
             /\ UNCHANGED <<ser, emitted, state, dev_info, config, mcs, op, res, val, busy_counter,
                            lut_counter, hw>>
        ELSE IF busy_counter > BusyBudget
        THEN Finish(From("BusyTimeout"), <<EvPoll(reading)>>)
        ELSE /\ busy_counter' = BumpBusy(busy_counter)
             /\ log' = <<EvPoll(reading), EvDelayUs(1)>>
             /\ UNCHANGED <<ser, emitted, state, dev_info, config, mcs, op, res, val, pc, todo,
                            lut_counter, hw>>

\* What the SPI driver can do, what the controller can answer to a read
SpiResults == IF hw = "any" THEN BOOLEAN ELSE {TRUE}
Answers    == IF hw = "stuck_lut" THEN {1} ELSE {0, 1}

\* The transfer of the interface call, the line being ready
Transfer ==
    /\ pc = "transfer"
    /\ \E spi_ok \in SpiResults, answer \in Answers :
        LET c  == Head(todo)
            rx == <<0, 0, 0, 0>> \o WordsToBytes(<<answer>>)
            r  == Call([c EXCEPT !.rx = rx], [NoFault EXCEPT !.at = 1, !.spi = spi_ok], 1)
        IN  IF r.res # "Ok" THEN Finish(From(r.res), SelectSeq(r.log, IsBus))
            ELSE /\ pc' = "call"
                 /\ todo' = Tail(todo)
                 /\ val' = val \o r.val
                 /\ log' = SelectSeq(r.log, IsBus)
                 /\ UNCHANGED <<ser, emitted, state, dev_info, config, mcs, op, res, busy_counter,
                                lut_counter, hw>>

\* The driver after init
StepInit ==
    /\ state = "Run"
    /\ \E ws \in DevWordsSample : dev_info = <<DevInfo(ws)>>
    /\ \E setup \in SetupSample : config = setup[1] /\ mcs = setup[2]
    /\ op = Idle
    /\ res = "Ok"
    /\ val = <<>>
    /\ log = <<>>
    /\ pc = "idle"
    /\ todo = <<>>
    /\ busy_counter = 0
    /\ lut_counter = 0
    /\ hw = "any"
    /\ ser = NoSerializer
    /\ emitted = <<>>

Step == Enter \/ Poll \/ Transfer

StepNext == Begin \/ Step

\* The processor keeps executing the call in progress
SpecSteps == StepInit /\ [][StepNext]_vars /\ WF_vars(Step)

----------------------------------------------------------------------------
(* The serializers followed item by item, as a for loop or a test drives   *)
(* them: the object is built from its arguments, then next() is called     *)
(* until it has returned None MaxNones times.                              *)

\* How often next() is called again after it returned None
MaxNones == 2

\* Largest height of a rectangle given to the fill serializer
MaxRows == 3

\* Largest left offset and width given to get_entires_per_row
MaxOffset == 9
MaxWidth == 9

\* Rectangles given to AreaSerializer::new (fill_solid: clipped, not empty)
FillRectSample ==
    { Rect(x, y, w, h) : x \in 0 .. 4, y \in {0, 2}, w \in {1, 3, 4, 5},
                         h \in 1 .. MaxRows }

\* Colours given to AreaSerializer::new
FillColorSample == {10, 15}

\* Values of Config.max_buffer_size
BufferSizeSample == {0, 2, 3, 4, 8, 12}

\* Rectangles given to convert_color_to_pixel_iterator (not clipped)
PixelRectSample ==
    { Rect(4, 1, 4, 1), Rect(0 - 1, 0 - 1, 3, 2), Rect(3, 1, 3, 2), Rect(1, 0, 4, 2),
      Rect(8, 9, 4, 2), Rect(0, 0, 2, 4), Rect(2, 1, 7, 1), Rect(20, 20, 2, 2),
      Rect(2, 2, 0, 3) }

\* Bounding boxes of the panel
BoxSample == {Rect(0, 0, 10, 10), Rect(0, 0, 5, 2)}

\* Colour iterators: the prefixes of two sequences of Gray4 values
PaletteSample == {<<12, 13, 14, 1, 2, 3, 7, 9>>, <<10, 11, 12, 13, 0, 15, 5, 6>>}

ColorsSample == { SubSeq(p, 1, n) : p \in PaletteSample, n \in 0 .. 8 }

\* AreaSerializer::new and AreaSerializerIterator::new
NewAreaSerializer(area, color, buffer_size) ==
    [kind  |-> "area",
     input |-> [area |-> area, color |-> color, buffer_size |-> buffer_size],
     a     |-> AreaSerializer(area, color, buffer_size),
     row   |-> 0,
     nones |-> 0]

\* PixelSerializer::new(area.intersection(&bb),
\*                      convert_color_to_pixel_iterator(area, bb, colors))
NewPixelSerializer(area, bb, colors, checks) ==
    [kind   |-> "pixel",
     input  |-> [area |-> area, bounding_box |-> bb, colors |-> colors],
     checks |-> checks,
     area   |-> intersection(area, bb),
     pixels |-> convert_color_to_pixel_iterator(area, bb, colors),
     row    |-> 0,
     panic  |-> FALSE,
     nones  |-> 0]

\* The argument of a call of get_entires_per_row
EntriesCall(offset, width) ==
    [kind |-> "entries", input |-> Rect(offset, 0, width, 1), result |-> <<>>]

SerializerInit ==
    /\ state = "NoDriver"
    /\ dev_info = <<>>
    /\ config = NoConfig
    /\ mcs = McsDefault
    /\ op = Idle
    /\ res = "Ok"
    /\ val = <<>>
    /\ log = <<>>
    /\ pc = "idle"
    /\ todo = <<>>
    /\ busy_counter = 0
    /\ lut_counter = 0
    /\ hw = "any"
    /\ emitted = <<>>
    /\ \/ \E area \in FillRectSample, color \in FillColorSample,
             buffer_size \in BufferSizeSample :
            ser = NewAreaSerializer(area, color, buffer_size)
       \/ \E area \in PixelRectSample, bb \in BoxSample, colors \in ColorsSample,
             checks \in BOOLEAN :
            ser = NewPixelSerializer(area, bb, colors, checks)
       \/ \E offset \in 0 .. MaxOffset, width \in 0 .. MaxWidth :
            ser = EntriesCall(offset, width)

\* area_iter.next()
area_next ==
    /\ ser.kind = "area" /\ ser.a.panic = "" /\ ser.nones < MaxNones
    /\ \E n \in {AreaSerializerIterator_next(ser.a, ser.row)} :
        /\ ser' = [ser EXCEPT !.row = n.row,
                              !.nones = IF n.item = <<>> THEN @ + 1 ELSE @]
        /\ emitted' = emitted \o n.item
    /\ UNCHANGED <<state, dev_info, config, mcs, op, res, val, log>>
    /\ UNCHANGED stepvars

\* pixel.next()
pixel_next ==
    /\ ser.kind = "pixel" /\ ~ser.panic /\ ser.nones < MaxNones
    /\ \E n \in {PixelSerializer_next(ser.area, ser.pixels, ser.row, ser.checks)} :
        /\ ser' = [ser EXCEPT !.row = n.row, !.pixels = n.pixels, !.panic = n.panic,
                              !.nones = IF n.item = <<>> THEN @ + 1 ELSE @]
        /\ emitted' = emitted \o n.item
    /\ UNCHANGED <<state, dev_info, config, mcs, op, res, val, log>>
    /\ UNCHANGED stepvars

\* get_entires_per_row(area)
entries_per_row ==
    /\ ser.kind = "entries" /\ ser.result = <<>>
    /\ ser' = [ser EXCEPT !.result = <<get_entires_per_row(ser.input)>>]
    /\ UNCHANGED <<state, dev_info, config, mcs, op, res, val, log, emitted>>
    /\ UNCHANGED stepvars

SerializerNext == area_next \/ pixel_next \/ entries_per_row

SpecSerializer == SerializerInit /\ [][SerializerNext]_vars

----------------------------------------------------------------------------
(* Properties *)

\* The calls of the interface made directly (trait IT8951Interface)
PrimOps == {"write_data", "write_multi_data", "write_command", "read_data",
            "read_multi_data"}

\* C1 (as amended): a call of a drawing, display or query operation on a
\* handle that is Off or in PowerDown is no call at all: the handle has no
\* such method, no error value is returned and nothing is put on the bus.
C1_RunOnly ==
    (op.name \in RunOps /\ state \in {"Off", "PowerDown"})
        => (res = "no method" /\ val = <<>> /\ log = <<>>)

C1_Witness ==
    /\ state = "PowerDown"
    /\ op.name = "display"
    /\ res = "no method"
    /\ log = <<>>

\* C1 as stated: such a call returns the invalid-state error of the driver
\* and puts no frame on the bus.
C1_InvalidStateError ==
    (op.name \in RunOps /\ state \in {"Off", "PowerDown"})
        => (res \in {"NotInitialized", "InvalidState"} /\ Frames(log) = <<>>)

\* The edges of the lifecycle: from, operation, to
Edges ==
    { <<"NoDriver", "new", "Off">>, <<"NoDriver", "new_with_mcs", "Off">>,
      <<"Off", "init", "Run">>,
      <<"NoDriver", "attach", "Run">>, <<"Run", "sleep", "PowerDown">>,
      <<"Run", "standby", "PowerDown">>, <<"PowerDown", "sys_run", "Run">> }

\* The command a power transition issues
PowerCommand(name) ==
    CASE name = "sleep" -> 3 [] name = "standby" -> 2 [] name = "sys_run" -> 1

\* C2: the typestate of a live handle changes only by a successful init or
\* attach (to Run), sleep or standby (Run to PowerDown) and sys_run
\* (PowerDown to Run); a successful sleep, standby or sys_run puts exactly
\* one frame on the bus, the command frame SLEEP (3), STANDBY (2) or
\* SYS_RUN (1), and a failed one puts no other frame on it.
C2_Lifecycle ==
    [][ /\ (state' # state /\ state' # "Consumed")
            => (<<state, op'.name, state'>> \in Edges /\ res' = "Ok")
        /\ op'.name \in {"sleep", "standby", "sys_run"}
            => LET cmd == PowerCommand(op'.name)
                   f   == Frames(log')
               IN  /\ Len(f) <= 1
                   /\ \A i \in 1 .. Len(f) :
                        f[i].e = "write" /\ f[i].tx = <<96, 0, 0, cmd>>
                   /\ res' = "Ok" => (Len(f) = 1 /\ f[1].n = 1)
                   /\ res' = "Ok" <=> state' # "Consumed" ]_vars

C2_Witness ==
    /\ state = "PowerDown"
    /\ op.name = "sleep"
    /\ res = "Ok"
    /\ Frames(log) = <<EvWrite(<<96, 0, 0, 3>>, TRUE)>>

\* C3: in write_data, write_multi_data, write_command, read_data and
\* read_multi_data every transfer on the bus comes right after a poll of
\* wait_while_busy that read ready; when wait_while_busy fails (BusyTimeout
\* or GPIOError) the call returns that error and nothing was transferred.
C3_WaitFirst ==
    op.name \in PrimOps
        => /\ \A i \in 1 .. Len(log) :
                IsBus(log[i]) => (i > 1 /\ log[i - 1] = EvPoll("ready"))
           /\ \A i \in 1 .. Len(log) :
                (log[i].e = "poll" /\ log[i].v = "err") => res = "GPIOError"
           /\ res \in {"BusyTimeout", "GPIOError"}
                => (Frames(log) = <<>> /\ log # <<>> /\ log[Len(log)].e = "poll"
                    /\ log[Len(log)].v # "ready")

C3_Witness ==
    /\ op.name = "write_data"
    /\ res = "BusyTimeout"
    /\ Len(log) > 1
    /\ Frames(log) = <<>>

IsBusyPoll(ev) == ev.e = "poll" /\ ev.v = "busy"

\* How often the busy pin read busy during the call
BusyPolls(l) == Len(SelectSeq(l, IsBusyPoll))

\* C4: wait_while_busy returns success at the first poll that reads ready
\* and never after a poll that read busy last; when the line stays busy a
\* call of a driver fails with BusyTimeout once its polls exceed the budget
\* of the driver's Config.timeout_interface (the budget is passed at the
\* poll with counter > timeout_interface, the poll number
\* timeout_interface + 2).
C4_BudgetFromConfig ==
    /\ op.name = "wait_while_busy"
        => /\ res = "Ok" <=> log[Len(log)] = EvPoll("ready")
           /\ \A i \in 1 .. Len(log) - 1 : log[i] # EvPoll("ready")
    /\ (state # "NoDriver" /\ res = From("BusyTimeout"))
        => BusyPolls(log) = config.timeout_interface + 2

\* A driver whose Config.timeout_interface is not the budget of the source
\* meets a busy line: BusyTimeout comes with the budget of the source.
C4_Witness ==
    /\ op.name = "sleep"
    /\ res = From("BusyTimeout")
    /\ BusyPolls(log) = BusyBudget + 2
    /\ config.timeout_interface # BusyBudget

\* C5: every call of the running driver returns, with success or an error
\* of the driver, whatever the controller does; when the busy line stays
\* busy for ever the call ends with BusyTimeout, when LUTAFSR never reads
\* zero display_area ends with DisplayEngineTimeout, and the two errors
\* are different values.
C5_Terminates ==
    /\ (pc # "idle") ~> (pc = "idle" /\ res \in {"Ok"} \cup DriverErrors)
    /\ [](pc = "idle" /\ op.name # "idle" /\ hw = "stuck_busy"
            => res = From("BusyTimeout"))
    /\ [](pc = "idle" /\ op.name = "display_area" /\ hw = "stuck_lut"
            => (res = "DisplayEngineTimeout" /\ res # From("BusyTimeout")
                /\ lut_counter = config.timeout_display_engine + 1))

C5_Witness ==
    /\ pc = "idle"
    /\ op.name = "display_area"
    /\ hw = "stuck_busy"
    /\ res = From("BusyTimeout")
    /\ busy_counter = BusyBudget + 1

\* A primitive of the interface failed at event i of the log: a transfer
\* or a pin write that failed, a poll the pin driver failed on, or a busy
\* poll the wait gave up on (no delay and next poll follow it)
FailedAt(l, i) ==
    \/ l[i].e \in {"write", "transfer", "rst"} /\ l[i].n = 0
    \/ l[i].e = "poll" /\ l[i].v = "err"
    \/ l[i].e = "poll" /\ l[i].v = "busy" /\ (i = Len(l) \/ l[i + 1].e # "delay_us")

\* The error of the interface for a failed event
ErrorOf(ev) ==
    IF ev.e \in {"write", "transfer"} THEN "SpiError"
    ELSE IF ev.e = "poll" /\ ev.v = "busy" THEN "BusyTimeout"
    ELSE "GPIOError"

\* The functions of the driver (lib.rs)
DriverOps == {"init", "attach", "sleep", "standby", "sys_run"} \cup RunOps

\* C6: when a primitive of the interface fails inside a function of the
\* driver, the failure is the last event of the call (no retry, no later
\* step) and the function returns that error as Interface(e); a function
\* that returns an error of the interface has such a failure as its last
\* event (BufferAlignment: the wait of write_multi_data, which transferred
\* nothing).
C6_FailFast ==
    op.name \in DriverOps
        => /\ \A i \in 1 .. Len(log) :
                FailedAt(log, i) => (i = Len(log) /\ res = From(ErrorOf(log[i])))
           /\ res \in {From("SpiError"), From("GPIOError"), From("BusyTimeout")}
                => (log # <<>> /\ FailedAt(log, Len(log)))
           /\ res = From("BufferAlignment")
                => (log # <<>> /\ log[Len(log)] = EvPoll("ready"))

C6_Witness ==
    /\ op.name = "load_image_area"
    /\ res = From("SpiError")
    /\ Len(Frames(log)) > 6
    /\ FailedAt(log, Len(log))

\* The bytes of the frames of a log
Sent(l) == [i \in 1 .. Len(Frames(l)) |-> Frames(l)[i].tx]

\* C7: write_command(v) puts exactly the 4 bytes 0x60, 0x00, v div 256,
\* v mod 256 on the bus and write_data(v) exactly 0x00, 0x00, v div 256,
\* v mod 256, in one frame; write_command(0x0302) gives 60 00 03 02 and
\* write_data(0xABCD) gives 00 00 AB CD.
C7_Framing ==
    /\ op.name \in {"write_command", "write_data"}
        => LET v      == op.w[1]
               prefix == IF op.name = "write_command" THEN <<96, 0>> ELSE <<0, 0>>
           IN  /\ Sent(log) \in {<<>>, << prefix \o <<v \div 256, v % 256>> >>}
               /\ res = "Ok" => (Len(Frames(log)) = 1 /\ Frames(log)[1].e = "write")
    /\ (op.name = "write_command" /\ op.w = <<770>> /\ res = "Ok")
        => Sent(log) = << <<96, 0, 3, 2>> >>
    /\ (op.name = "write_data" /\ op.w = <<43981>> /\ res = "Ok")
        => Sent(log) = << <<0, 0, 171, 205>> >>

C7_Witness ==
    /\ op.name = "write_command"
    /\ op.w = <<770>>
    /\ res = "Ok"
    /\ Sent(log) = << <<96, 0, 3, 2>> >>

\* Whether the wait_while_busy of a call of the interface succeeded
WaitSucceeded(l) == \E i \in 1 .. Len(l) : l[i] = EvPoll("ready")

\* C8 (as amended): write_multi_data with a payload of odd length fails and
\* transfers no byte: with BufferAlignment when wait_while_busy succeeded,
\* with the error of wait_while_busy otherwise; with a payload of even
\* length it sends one frame, 0x00 0x00 followed by the payload unchanged.
C8_Block ==
    op.name = "write_multi_data"
        => IF Len(op.d) % 2 = 1
           THEN /\ Frames(log) = <<>>
                /\ res = IF WaitSucceeded(log) THEN "BufferAlignment"
                         ELSE ErrorOf(log[Len(log)])
           ELSE /\ Sent(log) \in {<<>>, << <<0, 0>> \o op.d >>}
                /\ res # "BufferAlignment"
                /\ res = "Ok" => Len(Frames(log)) = 1

C8_Witness ==
    /\ op.name = "write_multi_data"
    /\ Len(op.d) = 3
    /\ res = "BufferAlignment"
    /\ WaitSucceeded(log)
    /\ Frames(log) = <<>>

\* C8 as stated: with a payload of odd length the call fails with
\* BufferAlignment and transfers no byte; with one of even length it sends
\* 0x00 0x00 once, followed by the payload unchanged.
C8_OddIsBufferAlignment ==
    op.name = "write_multi_data"
        => IF Len(op.d) % 2 = 1
           THEN res = "BufferAlignment" /\ Frames(log) = <<>>
           ELSE Sent(log) \in {<<>>, << <<0, 0>> \o op.d >>}

\* C9: read_data exchanges the 6 bytes 10 00 00 00 00 00 and returns
\* rx[4] * 256 + rx[5]; read_multi_data for n words exchanges 2n + 4 bytes,
\* 10 00 and zeros, and returns rx[4 + 2i] * 256 + rx[5 + 2i] as word i;
\* the first 4 bytes received have no part in the result (indices of the
\* claim from 0, of the model from 1).
C9_Reads ==
    /\ op.name = "read_data"
        => /\ Sent(log) \in {<<>>, << <<16, 0, 0, 0, 0, 0>> >>}
           /\ res = "Ok"
                => /\ Len(Frames(log)) = 1
                   /\ Frames(log)[1].e = "transfer"
                   /\ LET rx == Frames(log)[1].rx
                      IN  val = << rx[5] * 256 + rx[6] >>
    /\ op.name = "read_multi_data"
        => LET n == op.w[1]
           IN  /\ \A i \in 1 .. Len(Frames(log)) :
                    LET tx == Frames(log)[i].tx
                    IN  /\ Len(tx) = 2 * n + 4
                        /\ tx[1] = 16
                        /\ \A j \in 2 .. Len(tx) : tx[j] = 0
               /\ res = "Ok"
                    => /\ Len(Frames(log)) = 1
                       /\ Frames(log)[1].e = "transfer"
                       /\ Len(val) = n
                       /\ LET rx == Frames(log)[1].rx
                          IN  \A i \in 0 .. n - 1 :
                                val[i + 1] = rx[4 + 2 * i + 1] * 256 + rx[5 + 2 * i + 1]

C9_Witness ==
    /\ op.name = "read_data"
    /\ res = "Ok"
    /\ Frames(log)[1].rx = <<255, 255, 171, 205, 1, 255>>
    /\ val = <<511>>

\* C10: a successful init(vcom) does, in this order: the reset pulse, the
\* command SYS_RUN, the command GET_DEV_INFO and the read of its 20 words,
\* the write of 0x0001 to register I80CPCR (0x0004), the read of VCOM, and
\* then the write of VCOM when the value read differs from vcom; the
\* handle is Run with the DevInfo stored exactly when all of it succeeded.
C10_InitOrder ==
    op.name = "init"
        => /\ res = "Ok" <=> state = "Run"
           /\ res # "Ok" <=> state = "Consumed"
           /\ res = "Ok" <=> dev_info # <<>>
           /\ res = "Ok"
                => LET tx   == Sent(log)
                       vcom == op.w[1]
                       cur  == Frames(log)[9].rx[5] * 256 + Frames(log)[9].rx[6]
                       info == Frames(log)[3].rx
                   IN  /\ SubSeq(log, 1, 6) = reset(0).log
                       /\ \A i \in 7 .. Len(log) : log[i].e # "rst"
                       /\ \A i \in 1 .. Len(Frames(log)) : Frames(log)[i].n = 1
                       /\ SubSeq(tx, 1, 9) =
                            << <<96, 0, 0, 1>>,
                               <<96, 0, 3, 2>>, <<16, 0>> \o Zeros(42),
                               <<96, 0, 0, 17>>, <<0, 0, 0, 4>>, <<0, 0, 0, 1>>,
                               <<96, 0, 0, 57>>, <<0, 0, 0, 0>>, <<16, 0, 0, 0, 0, 0>> >>
                       /\ SubSeq(tx, 10, Len(tx)) =
                            IF vcom # cur
                            THEN << <<96, 0, 0, 57>>, <<0, 0, 0, 1>>,
                                    <<0, 0, vcom \div 256, vcom % 256>> >>
                            ELSE <<>>
                       /\ dev_info[1].panel_width = info[5] * 256 + info[6]
                       /\ dev_info[1].panel_height = info[7] * 256 + info[8]

C10_Witness ==
    /\ op.name = "init"
    /\ res = "Ok"
    /\ state = "Run"
    /\ dev_info # <<>>
    /\ Len(Frames(log)) = 12

\* C11: attach never drives the reset line and never issues the VCOM
\* command; when it succeeds its whole bus traffic is the command SYS_RUN,
\* the command GET_DEV_INFO and the read of 20 words, and the handle is Run
\* with the DevInfo decoded from these words stored.
C11_Attach ==
    op.name = "attach"
        => /\ \A i \in 1 .. Len(log) : log[i].e # "rst"
           /\ \A i \in 1 .. Len(Sent(log)) :
                Sent(log)[i] # <<96, 0, 0, USDEF_I80_CMD_VCOM>>
           /\ res = "Ok"
                => /\ Sent(log) = << <<96, 0, 0, 1>>, <<96, 0, 3, 2>>,
                                     <<16, 0>> \o Zeros(42) >>
                   /\ \A i \in 1 .. 3 : Frames(log)[i].n = 1
                   /\ state = "Run"
                   /\ dev_info = << DevInfo(SubSeq(val, 1, 20)) >>
                   /\ LET rx == Frames(log)[3].rx
                      IN  \A i \in 1 .. 20 :
                            val[i] = rx[3 + 2 * i] * 256 + rx[4 + 2 * i]
           /\ res # "Ok" => (state = "Consumed" /\ dev_info = <<>>)

C11_Witness ==
    /\ op.name = "attach"
    /\ res = "Ok"
    /\ state = "Run"
    /\ Len(Frames(log)) = 3
    /\ dev_info # <<>>
    /\ dev_info[1].panel_width = 5

\* The bytes of a command frame and of a data frame
CmdFrame(c)  == <<96, 0, c \div 256, c % 256>>
DataFrame(v) == <<0, 0, v \div 256, v % 256>>

\* The frames of one load_image_area for address addr, the settings word
\* arg, the area a and the buffer data
LoadAreaFrames(addr, arg, a, data) ==
    << CmdFrame(17), DataFrame(522), DataFrame(addr \div 65536),
       CmdFrame(17), DataFrame(520), DataFrame(addr % 65536),
       CmdFrame(33), DataFrame(arg), DataFrame(a.area_x), DataFrame(a.area_y),
       DataFrame(a.area_w), DataFrame(a.area_h),
       <<0, 0>> \o data,
       CmdFrame(34) >>

\* C12: a successful load_image_area(addr, settings, area, data) puts on
\* the bus, in this order: the write of addr div 65536 to register
\* LISAR + 2 (0x020A), the write of addr mod 65536 to LISAR (0x0208), the
\* command LD_IMG_AREA (0x0021) with the arguments settings word, x, y, w,
\* h, one block with data, and the command LD_IMG_END (0x0022), which is
\* the last frame and occurs once.
C12_LoadImageArea ==
    (op.name = "load_image_area" /\ res = "Ok")
        => LET a == AreaImgInfo(op.w[2], op.w[3], op.w[4], op.w[5])
               f == Sent(log)
           IN  /\ f = LoadAreaFrames(op.w[1], into_arg(mcs), a, op.d)
               /\ \A i \in 1 .. Len(f) : Frames(log)[i].e = "write" /\ Frames(log)[i].n = 1
               /\ f[Len(f)] = CmdFrame(IT8951_TCON_LD_IMG_END)
               /\ \A i \in 1 .. Len(f) - 1 : f[i] # CmdFrame(IT8951_TCON_LD_IMG_END)

C12_Witness ==
    /\ op.name = "load_image_area"
    /\ res = "Ok"
    /\ op.w = <<1184308, 1, 2, 3, 2>>
    /\ Len(op.d) = 2
    /\ Len(Frames(log)) = 14
    /\ Sent(log)[3] = <<0, 0, 0, 18>>
    /\ Sent(log)[6] = <<0, 0, 18, 52>>

\* A display command frame: DPY_AREA (0x0034) or DPY_BUF_AREA (0x0037)
IsDisplayCommand(bytes) == bytes \in {CmdFrame(52), CmdFrame(55)}

\* Frame i of the log is the answer to a read of register LUTAFSR (0x1224)
IsLutRead(l, i) ==
    /\ i >= 3
    /\ Frames(l)[i].e = "transfer" /\ Frames(l)[i].n = 1
    /\ Sent(l)[i - 2] = CmdFrame(16)
    /\ Sent(l)[i - 1] = DataFrame(4644)

\* The value of LUTAFSR read at frame i
LutValue(l, i) == Frames(l)[i].rx[5] * 256 + Frames(l)[i].rx[6]

\* The reads of LUTAFSR that returned a non-zero value
BusyLutReads(l) ==
    { i \in 1 .. Len(Frames(l)) : IsLutRead(l, i) /\ LutValue(l, i) # 0 }

\* C13: display_area and display_area_buf put their display command on the
\* bus only right after a read of LUTAFSR (0x1224) that returned zero; a
\* successful call ends with DPY_AREA (0x0034) and the words x, y, w, h,
\* mode, respectively DPY_BUF_AREA (0x0037) and x, y, w, h, mode, low and
\* high half of the address (x, y, w, h of the area after the rotation
\* transform); when LUTAFSR is read non-zero more often than the
\* display-engine timeout allows the call fails with DisplayEngineTimeout
\* and no display command is on the bus.
C13_DisplayAfterReady ==
    op.name \in {"display_area", "display_area_buf"}
        => LET f    == Sent(log)
               n    == Len(f)
               a    == rotate_area_info(Info, mcs,
                           AreaImgInfo(op.w[1], op.w[2], op.w[3], op.w[4]))
               args == <<a.area_x, a.area_y, a.area_w, a.area_h, op.w[5]>>
                       \o (IF op.name = "display_area" THEN <<>>
                           ELSE <<op.w[6] % 65536, op.w[6] \div 65536>>)
               cmd  == IF op.name = "display_area" THEN 52 ELSE 55
           IN  /\ \A i \in 1 .. n :
                    IsDisplayCommand(f[i])
                        => (i > 1 /\ IsLutRead(log, i - 1) /\ LutValue(log, i - 1) = 0)
               /\ res = "Ok"
                    => /\ n >= Len(args) + 4
                       /\ SubSeq(f, n - Len(args), n)
                            = <<CmdFrame(cmd)>> \o [k \in 1 .. Len(args) |-> DataFrame(args[k])]
                       /\ \A i \in 1 .. n - Len(args) - 1 : ~IsDisplayCommand(f[i])
               /\ res = "DisplayEngineTimeout"
                    => /\ \A i \in 1 .. n : ~IsDisplayCommand(f[i])
                       /\ Cardinality(BusyLutReads(log)) = config.timeout_display_engine + 2
               /\ Cardinality(BusyLutReads(log)) >= config.timeout_display_engine + 2
                    => res = "DisplayEngineTimeout"

C13_Witness ==
    /\ op.name = "display_area_buf"
    /\ res = "DisplayEngineTimeout"
    /\ config.timeout_display_engine = 1
    /\ Cardinality(BusyLutReads(log)) = 3
    /\ mcs.rotation = "Rotate90"

\* The frames of one load_image_area per chunk, in the order of the chunks
RECURSIVE ChunkFrames(_, _, _)
ChunkFrames(addr, arg, cs) ==
    IF cs = <<>> THEN <<>>
    ELSE LoadAreaFrames(addr, arg, Head(cs).info, Head(cs).buffer)
         \o ChunkFrames(addr, arg, Tail(cs))

\* The area a fill_solid or clear call asks for
RequestedArea ==
    IF op.name = "clear"
    THEN Rect(0, 0, size(Info, mcs).width, size(Info, mcs).height)
    ELSE Rect(op.w[1], op.w[2], op.w[3], op.w[4])

\* The colour a fill_solid or clear call asks for
RequestedColor == op.w[Len(op.w)]

\* C14: fill_solid(area, color) and clear(color) intersect the area asked
\* for with the bounding box of the panel; when the intersection is empty
\* they return Ok with nothing on the bus; otherwise a successful call has
\* put on the bus exactly one load_image_area per chunk of the fill
\* serializer, in the order of the chunks, each for the memory address of
\* the stored DevInfo and with the settings word of the configured
\* MemoryConverterSetting (a failed call: a prefix of these frames).
C14_Fill ==
    (state = "Run" /\ op.name \in {"fill_solid", "clear"})
        => LET area == intersection(RequestedArea, bounding_box(Info, mcs))
               a    == AreaSerializer(area, RequestedColor, config.max_buffer_size)
               cs   == IF a.panic # "" THEN <<>> ELSE AreaSerializerIterator(a, 0)
               want == ChunkFrames(Info.memory_address, into_arg(mcs), cs)
               f    == Sent(log)
           IN  IF is_zero_sized(area) THEN res = "Ok" /\ log = <<>>
               ELSE /\ Len(f) <= Len(want)
                    /\ f = SubSeq(want, 1, Len(f))
                    /\ (res = "Ok" /\ a.panic = "")
                         => (f = want /\ Len(f) = 14 * Len(cs) /\ cs # <<>>)

C14_Witness ==
    /\ op.name = "fill_solid"
    /\ op.w = <<0 - 1, 0 - 1, 3, 2, 10>>
    /\ res = "Ok"
    /\ Info.panel_width = 4
    /\ mcs.rotation = "Rotate180"
    /\ Len(Frames(log)) = 14
    /\ Sent(log)[9] = DataFrame(0)
    /\ Sent(log)[11] = DataFrame(2)
    /\ Sent(log)[12] = DataFrame(1)

\* The sum of the heights of chunks
RECURSIVE SumHeights(_)
SumHeights(cs) ==
    IF cs = <<>> THEN 0 ELSE Head(cs).info.area_h + SumHeights(Tail(cs))

\* ceil(a / b), as the least n with n * b >= a
Ceil(a, b) == CHOOSE n \in 0 .. a + 1 : n * b >= a /\ (n - 1) * b < a

BytesPerRow(area) == 2 * Ceil(area.w + (area.x % 4), 4)

\* C16 (as amended): every buffer of the fill serializer is at most
\* max_size long and every chunk but the last covers
\* min(floor(max_size / bytes_per_row), height) rows; when a row is longer
\* than max_size, construction fails and no chunk is produced: with the
\* assertion on the capacity when max_size is even, with the assertion on
\* the alignment of max_size when it is odd.
C16_Capacity ==
    ser.kind = "area"
        => LET area     == ser.input.area
               max_size == ser.input.buffer_size
               n        == Len(emitted)
           IN  /\ \A k \in 1 .. n : Len(emitted[k].buffer) <= max_size
               /\ \A k \in 1 .. n - 1 :
                    emitted[k].info.area_h
                        = Min(max_size \div BytesPerRow(area), area.h)
               /\ BytesPerRow(area) > max_size
                    => /\ emitted = <<>>
                       /\ ser.a.panic = IF max_size % 2 = 0
                                        THEN "Buffer size to small for one row"
                                        ELSE "Buffer size must be aligned to u16"

C16_Witness ==
    /\ ser.kind = "area"
    /\ ser.input = [area |-> Rect(3, 0, 3, 3), color |-> 15, buffer_size |-> 4]
    /\ Len(emitted) = 3
    /\ \A k \in 1 .. 3 : Len(emitted[k].buffer) = 4 /\ emitted[k].info.area_h = 1

\* C16 as stated: ... and when a row is longer than max_size construction
\* fails with the failure of the capacity, and no chunk is produced.
C16_CapacityError ==
    ser.kind = "area"
        => LET area     == ser.input.area
               max_size == ser.input.buffer_size
               n        == Len(emitted)
           IN  /\ \A k \in 1 .. n : Len(emitted[k].buffer) <= max_size
               /\ \A k \in 1 .. n - 1 :
                    emitted[k].info.area_h
                        = Min(max_size \div BytesPerRow(area), area.h)
               /\ BytesPerRow(area) > max_size
                    => /\ emitted = <<>>
                       /\ ser.a.panic = "Buffer size to small for one row"

\* C17: get_entires_per_row for a left edge offset >= 0 and a width >= 0 is
\* ceil((width + offset mod 4) / 4): 0 for (0, 0), 2 for (0, 5), (3, 2) and
\* (1, 4), 1 for (4, 1); offsets that agree modulo 4 give the same result.
C17_EntriesPerRow ==
    (ser.kind = "entries" /\ ser.result # <<>>)
        => LET offset == ser.input.x
               width  == ser.input.w
               n      == ser.result[1]
           IN  /\ n = Ceil(width + (offset % 4), 4)
               /\ n = get_entires_per_row(Rect(offset % 4, 0, width, 1))
               /\ <<offset, width>> = <<0, 0>> => n = 0
               /\ <<offset, width>> \in {<<0, 5>>, <<3, 2>>, <<1, 4>>} => n = 2
               /\ <<offset, width>> = <<4, 1>> => n = 1

C17_Witness ==
    /\ ser.kind = "entries"
    /\ ser.input.x = 7 /\ ser.input.w = 6
    /\ ser.result = <<3>>

\* The 4-bit field of a word at bit offset 4 * k
Nibble(word, k) == (word \div (16 ^ k)) % 16

\* The colour supplied for the point (x, y) of the rectangle given: colours
\* go to the points of that rectangle row by row
ColorAt(input, x, y) ==
    input.colors[(y - input.area.y) * input.area.w + (x - input.area.x) + 1]

\* C18: in a chunk of the pixel serializer the pixel of column x, in a
\* rectangle with left edge L, is in word floor(x / 4) - floor(L / 4) of
\* the buffer, in the 4 bits at bit offset 4 * (x mod 4), and every other
\* nibble of the buffer is zero; a row supplied in full has
\* ceil((width + L mod 4) / 4) words; the four pixels A, B, C, D of the
\* rectangle (4, 1, 4, 1) give the one word 0xDCBA.
C18_PixelPacking ==
    ser.kind = "pixel"
        => LET L == ser.area.x
           IN  /\ ~ser.panic
               /\ \A k \in 1 .. Len(emitted) :
                    LET c  == emitted[k]
                        y  == c.info.area_y
                        xs == L .. L + c.info.area_w - 1
                    IN  /\ \A x \in xs :
                             /\ (x \div 4) - (L \div 4) + 1 \in 1 .. Len(c.buffer)
                             /\ Nibble(c.buffer[(x \div 4) - (L \div 4) + 1], x % 4)
                                  = ColorAt(ser.input, x, y)
                        /\ \A i \in 1 .. Len(c.buffer), j \in 0 .. 3 :
                             (4 * ((L \div 4) + i - 1) + j) \notin xs
                                => Nibble(c.buffer[i], j) = 0
                        /\ \A i \in 1 .. Len(c.buffer) : c.buffer[i] < 65536
                        /\ c.info.area_w = ser.area.w
                             => Len(c.buffer) = Ceil(ser.area.w + (L % 4), 4)
               /\ (/\ ser.input.area = Rect(4, 1, 4, 1)
                   /\ ser.input.bounding_box = Rect(0, 0, 10, 10)
                   /\ ser.input.colors = <<10, 11, 12, 13>>
                   /\ ser.row > 0)
                    => emitted = << [info |-> AreaImgInfo(4, 1, 4, 1), buffer |-> <<56506>>] >>

C18_Witness ==
    /\ ser.kind = "pixel"
    /\ ser.input.area = Rect(3, 1, 3, 2)
    /\ ser.input.colors = <<12, 13, 14, 1, 2>>
    /\ ser.nones = 1
    /\ emitted = << [info |-> AreaImgInfo(3, 1, 3, 1), buffer |-> <<49152, 237>>],
                    [info |-> AreaImgInfo(3, 2, 2, 1), buffer |-> <<4096, 2>>] >>

\* Point number i of a rectangle, counted row by row from 1
PointOf(area, i) ==
    [x |-> area.x + ((i - 1) % area.w), y |-> area.y + ((i - 1) \div area.w)]

\* The numbers of the points that get a colour and lie in the bounding box
Drawn(input) ==
    { i \in 1 .. Min(Len(input.colors), input.area.w * input.area.h) :
        LET p == PointOf(input.area, i)
            b == input.bounding_box
        IN  p.x >= b.x /\ p.x < b.x + b.w /\ p.y >= b.y /\ p.y < b.y + b.h }

\* The sum of the widths of chunks
RECURSIVE SumWidths(_)
SumWidths(cs) ==
    IF cs = <<>> THEN 0 ELSE Head(cs).info.area_w + SumWidths(Tail(cs))

\* C19: the pixel serializer returns one chunk per row from top to bottom;
\* chunk number k (from 0) has area_x = left, area_y = top + k, area_h = 1
\* and area_w = the number of pixels taken for the row; when the pixels
\* end before the rectangle is full, the last chunk is as wide as the
\* pixels of its row, its buffer has only the words these pixels touch and
\* zero in the nibbles without pixel, a row without pixel gives no chunk,
\* and next() returns None from then on.
C19_PixelRows ==
    ser.kind = "pixel"
        => LET A    == ser.area
               npix == Cardinality(Drawn(ser.input))
               n    == Len(emitted)
           IN  /\ \A k \in 1 .. n :
                    LET c == emitted[k]
                        w == c.info.area_w
                    IN  /\ c.info.area_x = A.x
                        /\ c.info.area_y = A.y + (k - 1)
                        /\ c.info.area_h = 1
                        /\ w = Min(A.w, npix - (k - 1) * A.w)
                        /\ w >= 1
                        /\ k < n => w = A.w
                        /\ Len(c.buffer) = ((A.x + w - 1) \div 4) - (A.x \div 4) + 1
                        /\ c.buffer[Len(c.buffer)] < 16 ^ (((A.x + w - 1) % 4) + 1)
               /\ SumWidths(emitted) <= npix
               /\ ser.nones = 0 => n = ser.row
               /\ ser.nones > 0 => (SumWidths(emitted) = npix /\ ser.pixels = <<>>)

C19_Witness ==
    /\ ser.kind = "pixel"
    /\ ser.input.area = Rect(3, 1, 3, 2)
    /\ ser.input.colors = <<12, 13, 14, 1>>
    /\ ser.nones = MaxNones
    /\ emitted = << [info |-> AreaImgInfo(3, 1, 3, 1), buffer |-> <<49152, 237>>],
                    [info |-> AreaImgInfo(3, 2, 1, 1), buffer |-> <<4096>>] >>

\* The pixels of points i .. n of the rectangle given that lie in the
\* bounding box, each with colour number i
RECURSIVE ClippedPixels(_, _, _)
ClippedPixels(input, i, n) ==
    IF i > n THEN <<>>
    ELSE (IF i \in Drawn(input)
          THEN << [x |-> PointOf(input.area, i).x, y |-> PointOf(input.area, i).y,
                   luma |-> input.colors[i]] >>
          ELSE <<>>)
         \o ClippedPixels(input, i + 1, n)

\* C20: the colours go to the points of the rectangle as given, row by
\* row, and a point outside the bounding box is dropped with its colour:
\* the serializer gets the points of the intersection only, each with the
\* colour of its own position; the rectangle (-1, -1, 3, 2) in the box
\* (0, 0, 10, 10) with 6 colours gives the single chunk (0, 0, 2, 1) with
\* the word 0x0032.
C20_Clipping ==
    ser.kind = "pixel"
        => /\ ser.row = 0
                => ser.pixels = ClippedPixels(ser.input, 1,
                                    Min(Len(ser.input.colors),
                                        ser.input.area.w * ser.input.area.h))
           /\ \A i \in 1 .. Len(ser.pixels) :
                /\ contains(ser.area, ser.pixels[i])
                /\ contains(ser.input.bounding_box, ser.pixels[i])
                /\ ser.pixels[i].luma = ColorAt(ser.input, ser.pixels[i].x, ser.pixels[i].y)
           /\ \A k \in 1 .. Len(emitted) :
                /\ emitted[k].info.area_w >= 1
                /\ contains(ser.area, [x |-> emitted[k].info.area_x,
                                       y |-> emitted[k].info.area_y])
                /\ contains(ser.area,
                            [x |-> emitted[k].info.area_x + emitted[k].info.area_w - 1,
                             y |-> emitted[k].info.area_y])
           /\ (/\ ser.input.area = Rect(0 - 1, 0 - 1, 3, 2)
               /\ ser.input.bounding_box = Rect(0, 0, 10, 10)
               /\ ser.input.colors = <<12, 13, 14, 1, 2, 3>>
               /\ ser.row > 0)
                => emitted = << [info |-> AreaImgInfo(0, 0, 2, 1), buffer |-> <<50>>] >>

C20_Witness ==
    /\ ser.kind = "pixel"
    /\ ser.input.area = Rect(0 - 1, 0 - 1, 3, 2)
    /\ ser.input.bounding_box = Rect(0, 0, 10, 10)
    /\ ser.input.colors = <<12, 13, 14, 1, 2, 3>>
    /\ ser.nones = 1
    /\ emitted = << [info |-> AreaImgInfo(0, 0, 2, 1), buffer |-> <<50>>] >>

----------------------------------------------------------------------------
(* The rotation transform followed call by call: rotate_area_info applied  *)
(* to an area, and again to what it returned, on one panel and with one    *)
(* pixel format setting.                                                   *)

\* Largest number of successive applications of rotate_area_info
MaxRotations == 4

\* Largest coordinate and largest extent of the areas given to the transform
MaxCoord == 2
MaxExtent == 5

RotationSample == {"Rotate0", "Rotate90", "Rotate180", "Rotate270"}

RotateAreaSample ==
    { AreaImgInfo(x, y, w, h) : x \in 0 .. MaxCoord, y \in 0 .. MaxCoord,
                                w \in 0 .. MaxExtent, h \in 0 .. MaxExtent }

\* The driver whose rotate_area_info is called: its DevInfo, its settings,
\* the build (checks: overflow checks on), the area given first, the area
\* returned last, and the number of calls made
NewRotation(info, m, area, checks) ==
    [kind |-> "rotate", info |-> info, m |-> m, checks |-> checks,
     input |-> area, area |-> area, calls |-> 0, panic |-> FALSE]

RotationInit ==
    /\ state = "NoDriver"
    /\ dev_info = <<>>
    /\ config = NoConfig
    /\ mcs = McsDefault
    /\ op = Idle
    /\ res = "Ok"
    /\ val = <<>>
    /\ log = <<>>
    /\ pc = "idle"
    /\ todo = <<>>
    /\ busy_counter = 0
    /\ lut_counter = 0
    /\ hw = "any"
    /\ emitted = <<>>
    /\ \E words \in DevWordsSample, r \in RotationSample, area \in RotateAreaSample,
          checks \in BOOLEAN :
        ser = NewRotation(DevInfo(words), Rotated(r), area, checks)

\* self.rotate_area_info(&area): a subtraction that underflows panics in a
\* build with overflow checks and wraps in a build without
call_rotate_area_info ==
    /\ ser.kind = "rotate" /\ ~ser.panic /\ ser.calls < MaxRotations
    /\ IF ser.checks /\ rotate_underflows(ser.info, ser.m, ser.area)
       THEN /\ ser' = [ser EXCEPT !.panic = TRUE, !.calls = @ + 1]
            /\ UNCHANGED emitted
       ELSE \E a \in {rotate_area_info(ser.info, ser.m, ser.area)} :
            /\ ser' = [ser EXCEPT !.area = a, !.calls = @ + 1]
            /\ emitted' = Append(emitted, a)
    /\ UNCHANGED <<state, dev_info, config, mcs, op, res, val, log>>
    /\ UNCHANGED stepvars

RotationNext == call_rotate_area_info

SpecRotation == RotationInit /\ [][RotationNext]_vars

\* C21: for every rotation and every logical rectangle (x, y, w, h) inside
\* the logical bounding box of the driver, rotate_area_info returns the value
\* of the table (0: (x, y, w, h); 90: (y, ph-w-x, h, w); 180: (pw-w-x,
\* ph-h-y, w, h); 270: (pw-h-y, x, h, w)), no subtraction underflows (the
\* call does not panic in a build with overflow checks and nothing wraps in a
\* build without), and the result lies inside the physical panel.
RotationTable(r, pw, ph, x, y, w, h) ==
    CASE r = "Rotate0"   -> AreaImgInfo(x, y, w, h)
      [] r = "Rotate90"  -> AreaImgInfo(y, ph - w - x, h, w)
      [] r = "Rotate180" -> AreaImgInfo(pw - w - x, ph - h - y, w, h)
      [] r = "Rotate270" -> AreaImgInfo(pw - h - y, x, h, w)

InsideLogical(info, m, a) ==
    LET bb == bounding_box(info, m)
    IN  a.area_x + a.area_w <= bb.w /\ a.area_y + a.area_h <= bb.h

C21_Rotate ==
    (ser.kind = "rotate" /\ ser.calls = 1 /\ InsideLogical(ser.info, ser.m, ser.input))
        => LET pw == ser.info.panel_width
               ph == ser.info.panel_height
               i  == ser.input
               t  == RotationTable(ser.m.rotation, pw, ph,
                                   i.area_x, i.area_y, i.area_w, i.area_h)
           IN  /\ ~ser.panic
               /\ emitted = <<t>>
               /\ ser.area = t
               /\ t.area_x + t.area_w <= pw
               /\ t.area_y + t.area_h <= ph

\* A rotated driver has mapped an area with non-zero coordinates that lies
\* inside its bounding box
C21_Witness ==
    /\ ser.kind = "rotate" /\ ser.calls = 1 /\ ser.checks
    /\ ser.m.rotation = "Rotate270"
    /\ InsideLogical(ser.info, ser.m, ser.input)
    /\ ser.input.area_x > 0 /\ ser.input.area_y > 0
    /\ ser.input.area_w > 0 /\ ser.input.area_h > ser.input.area_w
    /\ emitted # <<>>

\* C22 (as stated): applying the 90-degree transform four times in
\* succession to any rectangle returns the original rectangle: none of the
\* four calls fails and the fourth returns the area given to the first.
C22_FourTimesAnyRectangle ==
    (ser.kind = "rotate" /\ ser.m.rotation = "Rotate90")
        => /\ ~ser.panic
           /\ ser.calls = 4 => ser.area = ser.input

\* C22 (amended): applying the 90-degree transform four times in succession
\* returns the original rectangle, unless a subtraction of one of the four
\* calls underflows in a build with overflow checks: that call panics and
\* returns nothing.  In a build without overflow checks the wrapped
\* coordinates unwrap again and the fourth call returns the original.
C22_FourTimes ==
    (ser.kind = "rotate" /\ ser.m.rotation = "Rotate90")
        => /\ (ser.calls = 4 /\ ~ser.panic) => ser.area = ser.input
           /\ ser.panic => (/\ ser.checks
                            /\ rotate_underflows(ser.info, ser.m, ser.area))
           /\ ~ser.panic => Len(emitted) = ser.calls

\* Four calls were made on a rectangle that is not a square and not on the
\* diagonal, in a build with overflow checks
C22_Witness ==
    /\ ser.kind = "rotate" /\ ser.m.rotation = "Rotate90"
    /\ ser.calls = 4 /\ ~ser.panic /\ ser.checks
    /\ ser.input.area_w # ser.input.area_h
    /\ ser.input.area_x # ser.input.area_y
    /\ ser.input.area_w > 0 /\ ser.input.area_h > 0
    /\ emitted[1] # ser.input /\ emitted[2] # ser.input /\ emitted[3] # ser.input

\* Four calls were made in a build without overflow checks and one of them
\* wrapped
C22_WitnessWrapped ==
    /\ ser.kind = "rotate" /\ ser.m.rotation = "Rotate90"
    /\ ser.calls = 4 /\ ~ser.checks
    /\ \E i \in 1 .. 3 : emitted[i].area_y > 32768 \/ emitted[i].area_x > 32768

\* C23: the size reported by the driver is (panel_width, panel_height) of
\* the stored DevInfo for Rotate0 and Rotate180, and (panel_height,
\* panel_width) for Rotate90 and Rotate270.
C23_Size ==
    (op.name = "size" /\ state = "Run" /\ dev_info # <<>>)
        => /\ res = "Ok"
           /\ mcs.rotation \in {"Rotate0", "Rotate180"}
                => val = <<dev_info[1].panel_width, dev_info[1].panel_height>>
           /\ mcs.rotation \in {"Rotate90", "Rotate270"}
                => val = <<dev_info[1].panel_height, dev_info[1].panel_width>>

\* A driver rotated by 270 degrees has reported the size of the 4x3 panel
C23_Witness ==
    /\ op.name = "size" /\ state = "Run" /\ res = "Ok"
    /\ mcs.rotation = "Rotate270"
    /\ dev_info # <<>>
    /\ dev_info[1].panel_width = 4 /\ dev_info[1].panel_height = 3
    /\ val = <<3, 4>>

\* Every MemoryConverterSetting
AllSettings ==
    [endianness    : {"LittleEndian", "BigEndian"},
     bit_per_pixel : {"BitsPerPixel2", "BitsPerPixel3", "BitsPerPixel4", "BitsPerPixel8"},
     rotation      : RotationSample]

\* The n bits of v from bit lo upwards
Bits(v, lo, n) == (v \div (2 ^ lo)) % (2 ^ n)

\* (endianness << 8) | (bpp << 4) | rotation, the fields being disjoint
SettingsWord(m) ==
    Endianness(m.endianness) * 256 + BitPerPixel(m.bit_per_pixel) * 16 + Rotation(m.rotation)

\* C24: the settings collapse to the 16-bit argument (endianness << 8) |
\* (bpp << 4) | rotation: rotation occupies bits 0..1, bits per pixel bits
\* 4..5 and endianness bit 8, all other bits are zero, distinct settings
\* give distinct arguments, this argument is what load_image and
\* load_image_area put on the bus after their command, and a driver made by
\* new() or attach() holds the default {little endian, 4 bpp, 0 degrees}.
C24_IntoArg ==
    /\ \A m \in AllSettings : \A a \in {into_arg(m)} :
            /\ a \in 0 .. 65535
            /\ a = SettingsWord(m)
            /\ Bits(a, 0, 2) = Rotation(m.rotation)
            /\ Bits(a, 4, 2) = BitPerPixel(m.bit_per_pixel)
            /\ Bits(a, 8, 1) = Endianness(m.endianness)
            /\ Bits(a, 2, 2) = 0 /\ Bits(a, 6, 2) = 0 /\ Bits(a, 9, 7) = 0
    /\ Cardinality({ into_arg(m) : m \in AllSettings }) = Cardinality(AllSettings)
    /\ Cardinality(AllSettings) = 32
    /\ op.name \in {"new", "attach"}
        => mcs = [endianness |-> "LittleEndian", bit_per_pixel |-> "BitsPerPixel4",
                  rotation |-> "Rotate0"]
    /\ (op.name \in {"load_image", "load_image_area"} /\ Len(Sent(log)) >= 8)
        => Sent(log)[8] = DataFrame(SettingsWord(mcs))

\* A driver with big-endian 8 bpp pixels rotated by 270 degrees has loaded
\* an image area: the argument on the bus is 0x0133
C24_Witness ==
    /\ op.name = "load_image_area" /\ res = "Ok"
    /\ mcs = [endianness |-> "BigEndian", bit_per_pixel |-> "BitsPerPixel8",
              rotation |-> "Rotate270"]
    /\ Len(Sent(log)) >= 8
    /\ Sent(log)[8] = <<0, 0, 1, 51>>

\* A driver made by attach() has loaded an image: the argument is 0x0020
C24_WitnessDefault ==
    /\ op.name = "load_image" /\ res = "Ok"
    /\ mcs = McsDefault
    /\ Sent(log)[8] = <<0, 0, 0, 32>>

\* The points of a draw_iter call, in the order given
DrawnPoints ==
    [k \in 1 .. Len(op.w) \div 3 |-> [x |-> op.w[3 * k - 2], y |-> op.w[3 * k - 1]]]

\* C25 (as stated): draw_iter never panics and clips to the size of the
\* panel first: a point with x outside [0, width) or y outside [0, height)
\* puts nothing on the bus, and a successful call has put on the bus exactly
\* one load_image_area (14 frames, command 0x0021) per point inside the
\* size, in the order of the points, with the area (x, y, 1, 1).
C25_DrawPointsClip ==
    (state = "Run" /\ op.name = "draw_iter")
        => LET width       == size(Info, mcs).width
               height      == size(Info, mcs).height
               InBounds(p) == p.x >= 0 /\ p.x < width /\ p.y >= 0 /\ p.y < height
               inside      == SelectSeq(DrawnPoints, InBounds)
               f           == Sent(log)
           IN  /\ res # "panic"
               /\ inside = <<>> => log = <<>>
               /\ res = "Ok"
                    => /\ Len(f) = 14 * Len(inside)
                       /\ \A k \in 1 .. Len(inside) :
                            /\ f[14 * (k - 1) + 7] = CmdFrame(33)
                            /\ SubSeq(f, 14 * (k - 1) + 9, 14 * (k - 1) + 12)
                                 = <<DataFrame(inside[k].x), DataFrame(inside[k].y),
                                     DataFrame(1), DataFrame(1)>>

\* draw_iter was given the point (9, 9) on a panel that has no such point
\* and it has loaded the area (9, 9, 1, 1)
C25_Witness ==
    /\ state = "Run" /\ op.name = "draw_iter" /\ res = "Ok"
    /\ Len(op.w) = 3 /\ op.w[1] = 9 /\ op.w[2] = 9
    /\ size(Info, mcs).width < 9 /\ size(Info, mcs).height < 9
    /\ Len(Sent(log)) = 14
    /\ SubSeq(Sent(log), 7, 12) = <<CmdFrame(33), DataFrame(into_arg(mcs)), DataFrame(9),
                                    DataFrame(9), DataFrame(1), DataFrame(1)>>

\* draw_iter was given a point with x = -1 and it has panicked
C25_WitnessPanic ==
    /\ state = "Run" /\ op.name = "draw_iter" /\ res = "panic"
    /\ Len(op.w) = 3 /\ op.w[1] = 0 - 1
    /\ log = <<>>

\* draw_iter was given a point with x = -1 in a build without overflow
\* checks and it has loaded the area (65535, 2, 1, 1)
C25_WitnessWrapped ==
    /\ state = "Run" /\ op.name = "draw_iter" /\ res = "Ok"
    /\ Len(op.w) = 3 /\ op.w[1] = 0 - 1 /\ op.w[2] = 2
    /\ SubSeq(Sent(log), 9, 12) = <<DataFrame(65535), DataFrame(2), DataFrame(1),
                                    DataFrame(1)>>

\* The four argument frames of a burst command for address addr and length n
BurstArgs(addr, n) ==
    << DataFrame(addr % 65536), DataFrame(addr \div 65536),
       DataFrame(n % 65536), DataFrame(n \div 65536) >>

\* C26 (as stated): a successful memory_burst_read puts on the bus
\* MEM_BST_RD_TRIGGER (0x0012) with [addr_lo, addr_hi, len_lo, len_hi],
\* MEM_BST_RD_START (0x0013), one read of out.len() words and MEM_BST_END
\* (0x0015); a successful memory_burst_write MEM_BST_WR (0x0014) with its
\* four arguments, the data as one block and MEM_BST_END; and for n 16-bit
\* words transferred both send the length n.
C26_Burst ==
    /\ (op.name = "memory_burst_read" /\ res = "Ok")
        => LET n == op.w[2]
           IN  /\ Sent(log) = <<CmdFrame(18)>> \o BurstArgs(op.w[1], n)
                              \o << CmdFrame(19), <<16, 0>> \o Zeros(2 * n + 2),
                                    CmdFrame(21) >>
               /\ Frames(log)[7].e = "transfer"
               /\ \A i \in {1, 2, 3, 4, 5, 6, 8} : Frames(log)[i].e = "write"
    /\ (op.name = "memory_burst_write" /\ res = "Ok")
        => LET n == Len(op.d) \div 2
           IN  /\ Sent(log) = <<CmdFrame(20)>> \o BurstArgs(op.w[1], n)
                              \o << <<0, 0>> \o op.d, CmdFrame(21) >>
               /\ \A i \in 1 .. 7 : Frames(log)[i].e = "write"

\* What holds instead: the same sequences, the length of memory_burst_write
\* being the number of bytes of its buffer
C26_BurstLengthInBytes ==
    /\ (op.name = "memory_burst_read" /\ res = "Ok")
        => Sent(log) = <<CmdFrame(18)>> \o BurstArgs(op.w[1], op.w[2])
                       \o << CmdFrame(19), <<16, 0>> \o Zeros(2 * op.w[2] + 2),
                             CmdFrame(21) >>
    /\ (op.name = "memory_burst_write" /\ res = "Ok")
        => Sent(log) = <<CmdFrame(20)>> \o BurstArgs(op.w[1], Len(op.d))
                       \o << <<0, 0>> \o op.d, CmdFrame(21) >>

\* memory_burst_write has transferred one word and has announced the
\* length 2; memory_burst_read announces 1 for one word
C26_Witness ==
    /\ op.name = "memory_burst_write" /\ res = "Ok"
    /\ op.d = <<170, 187>>
    /\ Len(Sent(log)) = 7
    /\ Sent(log)[1] = CmdFrame(IT8951_TCON_MEM_BST_WR)
    /\ Sent(log)[4] = <<0, 0, 0, 2>>
    /\ Sent(log)[6] = <<0, 0, 170, 187>>

C26_WitnessRead ==
    /\ op.name = "memory_burst_read" /\ res = "Ok"
    /\ op.w[2] = 1
    /\ Sent(log)[4] = <<0, 0, 0, 1>>
    /\ Len(Sent(log)[7]) = 6

\* The position in the log l of its k-th frame on the bus
BusPos(l, k) ==
    CHOOSE i \in 1 .. Len(l) : IsBus(l[i]) /\ Len(Frames(SubSeq(l, 1, i))) = k

IsReadyPoll(ev) == ev = EvPoll("ready")

\* The characters of the words ws: of every non-zero word the low byte,
\* then the high byte
RECURSIVE VersionChars(_)
VersionChars(ws) ==
    IF ws = <<>> THEN <<>>
    ELSE LET last == ws[Len(ws)]
         IN  VersionChars(SubSeq(ws, 1, Len(ws) - 1))
             \o (IF last = 0 THEN <<>> ELSE <<last % 256, last \div 256>>)

\* C27: the query of the device info (made by init and attach) issues
\* GET_DEV_INFO (0x0302), waits until the busy pin reads ready, reads
\* exactly 20 words in one exchange of 44 bytes, and decodes panel_width =
\* word 0, panel_height = word 1, memory_address = word 3 * 65536 + word 2,
\* the firmware version from words 4..11 and the LUT version from words
\* 12..19, each non-zero word giving its low byte and then its high byte as
\* characters and each zero word giving nothing.
C27_DevInfo ==
    (op.name \in {"init", "attach"} /\ res = "Ok")
        => LET rx       == Frames(log)[3].rx
               word(k)  == rx[5 + 2 * k] * 256 + rx[6 + 2 * k]
               words    == [k \in 1 .. 20 |-> word(k - 1)]
               asked    == BusPos(log, 2)
               answered == BusPos(log, 3)
               between  == SubSeq(log, asked + 1, answered - 1)
           IN  /\ Sent(log)[2] = CmdFrame(770)
               /\ Frames(log)[2].e = "write"
               /\ Frames(log)[3].e = "transfer"
               /\ Sent(log)[3] = <<16, 0>> \o Zeros(42)
               /\ Len(rx) = 44
               /\ \A i \in 1 .. Len(Sent(log)) : i # 2 => Sent(log)[i] # CmdFrame(770)
               /\ \A i \in 1 .. Len(between) : between[i].e \in {"poll", "delay_us"}
               /\ Len(SelectSeq(between, IsReadyPoll)) = 2
               /\ between[Len(between)] = EvPoll("ready")
               /\ dev_info = << [ panel_width      |-> word(0),
                                  panel_height     |-> word(1),
                                  memory_address   |-> word(3) * 65536 + word(2),
                                  firmware_version |-> VersionChars(SubSeq(words, 5, 12)),
                                  lut_version      |-> VersionChars(SubSeq(words, 13, 20)) ] >>

\* init has stored the DevInfo of the 4x3 panel: the address 0x00121234,
\* the firmware version "SW_0" and a LUT version with a zero byte inside
C27_Witness ==
    /\ op.name = "init" /\ res = "Ok" /\ state = "Run"
    /\ dev_info # <<>>
    /\ dev_info[1].panel_width = 4 /\ dev_info[1].panel_height = 3
    /\ dev_info[1].memory_address = 1184308
    /\ dev_info[1].firmware_version = <<83, 87, 95, 48>>
    /\ dev_info[1].lut_version = <<77, 0, 52, 52>>
    /\ Len(SelectSeq(SubSeq(log, BusPos(log, 2) + 1, BusPos(log, 3) - 1), IsReadyPoll)) = 2

\* How often the command GET_DEV_INFO (0x0302) is on the bus in the log l
DevInfoQueries(l) ==
    Cardinality({ i \in 1 .. Len(Sent(l)) : Sent(l)[i] = CmdFrame(770) })

\* C28: a handle that is Run (or in PowerDown, on its way back to Run)
\* holds a DevInfo, so get_dev_info and size succeed; the DevInfo is stored
\* once, by a successful init or attach whose call made the only
\* GET_DEV_INFO query, and no other operation puts GET_DEV_INFO on the bus
\* or changes the stored DevInfo, the Config or the MemoryConverterSetting
\* of the handle.
C28_DevInfoOnce ==
    /\ [](state \in {"Run", "PowerDown"} => dev_info # <<>>)
    /\ []((state = "Run" /\ op.name \in {"get_dev_info", "size"}) => res = "Ok")
    /\ []((state = "Run" /\ op.name = "get_dev_info") => val = dev_info)
    /\ []((op.name \in {"init", "attach"} /\ res = "Ok") => DevInfoQueries(log) = 1)
    /\ [](op.name \in {"init", "attach"} => DevInfoQueries(log) <= 1)
    /\ [](op.name \in (DriverOps \ {"init", "attach"}) => DevInfoQueries(log) = 0)
    /\ [][ /\ dev_info' # dev_info
                => /\ dev_info = <<>>
                   /\ op'.name \in {"init", "attach"}
                   /\ res' = "Ok"
                   /\ state' = "Run"
           /\ state # "NoDriver" => (config' = config /\ mcs' = mcs) ]_vars

\* A driver with its own settings was put to sleep and woken up, and holds
\* the DevInfo, Config and settings it had
C28_Witness ==
    /\ op.name = "sys_run" /\ res = "Ok" /\ state = "Run"
    /\ dev_info # <<>>
    /\ dev_info[1].panel_width = 5
    /\ config = ConfigB
    /\ mcs.rotation = "Rotate270"

\* How often the command VCOM (0x0039) is on the bus in the log l
VcomCommands(l) ==
    Cardinality({ i \in 1 .. Len(Sent(l)) : Sent(l)[i] = CmdFrame(57) })

\* C29: init(vcom) reads VCOM (command 0x0039, data 0x0000, a read of one
\* word) and issues the VCOM write (command 0x0039, data 0x0001, data vcom)
\* if and only if the value read differs from vcom; when they are equal the
\* read is the last traffic of init and no frame of a VCOM write is on the
\* bus.  An init that fails has started the VCOM write only after a read
\* that returned another value.
C29_VcomWrite ==
    op.name = "init"
        => LET tx   == Sent(log)
               vcom == op.w[1]
               cur  == Frames(log)[9].rx[5] * 256 + Frames(log)[9].rx[6]
           IN  /\ VcomCommands(log) <= 2
               /\ VcomCommands(log) = 2
                    => /\ Len(tx) >= 10
                       /\ Frames(log)[9].e = "transfer" /\ Frames(log)[9].n = 1
                       /\ tx[10] = CmdFrame(57)
                       /\ cur # vcom
               /\ res = "Ok"
                    => /\ SubSeq(tx, 7, 9)
                            = <<CmdFrame(57), DataFrame(0), <<16, 0, 0, 0, 0, 0>> >>
                       /\ Frames(log)[9].e = "transfer"
                       /\ cur # vcom
                            <=> /\ Len(tx) = 12
                                /\ SubSeq(tx, 10, 12)
                                     = <<CmdFrame(57), DataFrame(1), DataFrame(vcom)>>
                       /\ cur = vcom <=> (Len(tx) = 9 /\ VcomCommands(log) = 1)

\* init(2000) has read 2000 from the controller and has not written VCOM
C29_Witness ==
    /\ op.name = "init" /\ res = "Ok" /\ state = "Run"
    /\ op.w = <<2000>>
    /\ Len(Frames(log)) = 9
    /\ Frames(log)[9].rx[5] * 256 + Frames(log)[9].rx[6] = 2000

\* init(2000) has read 1670 and has written 2000
C29_WitnessWrite ==
    /\ op.name = "init" /\ res = "Ok"
    /\ op.w = <<2000>>
    /\ Len(Frames(log)) = 12
    /\ Frames(log)[9].rx[5] * 256 + Frames(log)[9].rx[6] = 1670
    /\ Sent(log)[12] = <<0, 0, 7, 208>>

\* The pulse of a reset: high, 200 ms, low, 20 ms, high, 200 ms
ResetPulse ==
    << EvRst("high", TRUE), EvDelayMs(200), EvRst("low", TRUE), EvDelayMs(20),
       EvRst("high", TRUE), EvDelayMs(200) >>

\* C30: reset() drives the reset line high, delays 200 ms, drives it low,
\* delays 20 ms, drives it high and delays 200 ms, in this order, so the
\* last level driven before a successful return is high; when driving the
\* pin fails, reset returns GPIOError at once: the failed write is the last
\* thing it did, after the steps before it and without the steps after it.
\* reset puts nothing on the bus.
C30_Reset ==
    op.name = "reset"
        => /\ res \in {"Ok", "GPIOError"}
           /\ Frames(log) = <<>>
           /\ res = "Ok" <=> log = ResetPulse
           /\ res = "Ok" => (log[5].e = "rst" /\ log[5].v = "high" /\ log[5].n = 1
                             /\ log[6] = EvDelayMs(200))
           /\ res = "GPIOError"
                => \E k \in {1, 3, 5} :
                     /\ Len(log) = k
                     /\ SubSeq(log, 1, k - 1) = SubSeq(ResetPulse, 1, k - 1)
                     /\ log[k] = EvRst(ResetPulse[k].v, FALSE)

\* The reset pin failed when it was driven low: reset returned GPIOError
\* after high, 200 ms and the failed write
C30_Witness ==
    /\ op.name = "reset" /\ res = "GPIOError"
    /\ log = <<EvRst("high", TRUE), EvDelayMs(200), EvRst("low", FALSE)>>

\* A reset that succeeded
C30_WitnessOk ==
    /\ op.name = "reset" /\ res = "Ok"
    /\ Len(log) = 6

\* The operations of the interface that transfer on the bus
CodecOps == PrimOps \cup {"write_command_with_args"}

\* C31 (as stated): every operation of the interface other than
\* wait_while_busy (write_data, write_multi_data, write_command,
\* write_command_with_args, read_data, read_multi_data and reset) polls the
\* busy pin as its first step, before any effect on the bus or on the reset
\* line.
C31_AllWaitFirst ==
    (state = "NoDriver" /\ op.name \in CodecOps \cup {"reset"})
        => (log # <<>> /\ log[1].e = "poll")

\* C31 (amended): write_data, write_multi_data, write_command,
\* write_command_with_args, read_data and read_multi_data poll the busy pin
\* as their first step, before any effect on the bus; reset does not wait:
\* its first step drives the reset line and it never polls the busy pin.
C31_WaitFirstButReset ==
    /\ (state = "NoDriver" /\ op.name \in CodecOps)
        => /\ log # <<>>
           /\ log[1].e = "poll"
           /\ \A i \in 1 .. Len(log) :
                IsBus(log[i]) => \E j \in 1 .. i - 1 : log[j] = EvPoll("ready")
    /\ (state = "NoDriver" /\ op.name = "reset")
        => /\ log # <<>>
           /\ log[1].e = "rst"
           /\ \A i \in 1 .. Len(log) : log[i].e # "poll"

\* read_multi_data of two words has met a busy pin first and has then
\* transferred
C31_Witness ==
    /\ state = "NoDriver" /\ op.name = "read_multi_data" /\ res = "Ok"
    /\ op.w = <<2>>
    /\ log[1] = EvPoll("busy")
    /\ Len(Frames(log)) = 1

\* reset has driven the line without a poll of the busy pin
C31_WitnessReset ==
    /\ state = "NoDriver" /\ op.name = "reset" /\ res = "Ok"
    /\ log[1] = EvRst("high", TRUE)
    /\ \A i \in 1 .. Len(log) : log[i].e # "poll"

\* The frames of write_command_with_args(code, args)
CommandWithArgs(code, args) ==
    <<CmdFrame(code)>> \o [i \in 1 .. Len(args) |-> DataFrame(args[i])]

\* C32: write_command_with_args(code, args) puts on the bus the command
\* frame of code and then one data frame per argument, in the order of the
\* arguments: exactly 1 + len(args) frames when it succeeds; when the
\* command or the write of an argument fails, that failure is the last
\* thing the call did and the arguments after it are not sent.
C32_CommandWithArgs ==
    (state = "NoDriver" /\ op.name = "write_command_with_args")
        => LET code == op.w[1]
               args == SubSeq(op.w, 2, Len(op.w))
               want == CommandWithArgs(code, args)
               f    == Sent(log)
           IN  /\ Len(f) <= Len(want)
               /\ f = SubSeq(want, 1, Len(f))
               /\ \A i \in 1 .. Len(f) : Frames(log)[i].e = "write"
               /\ \A i \in 1 .. Len(f) - 1 : Frames(log)[i].n = 1
               /\ res = "Ok"
                    => /\ Len(f) = 1 + Len(args)
                       /\ f = want
                       /\ Frames(log)[Len(f)].n = 1
               /\ res # "Ok"
                    => /\ res \in InterfaceErrors
                       /\ FailedAt(log, Len(log))
                       /\ res = ErrorOf(log[Len(log)])
                       /\ \A i \in 1 .. Len(log) - 1 : ~FailedAt(log, i)
                       /\ Len(SelectSeq(Frames(log), LAMBDA ev : ev.n = 1)) < 1 + Len(args)

\* The write of the first of two different arguments failed on the bus:
\* the command and the failed frame are all that was sent
C32_Witness ==
    /\ state = "NoDriver" /\ op.name = "write_command_with_args"
    /\ op.w = <<17, 1, 43981>>
    /\ res = "SpiError"
    /\ Len(Frames(log)) = 2
    /\ Sent(log) = <<CmdFrame(17), DataFrame(1)>>
    /\ Frames(log)[2].n = 0

\* Two different arguments were sent in their order
C32_WitnessOk ==
    /\ state = "NoDriver" /\ op.name = "write_command_with_args"
    /\ res = "Ok"
    /\ Sent(log) = <<CmdFrame(770), DataFrame(43981), DataFrame(1)>>

\* C33 (as stated): every chunk of the fill serializer, also the last one
\* of a rectangle whose height is no multiple of the rows per chunk, comes
\* with a buffer of exactly 2 * entries_per_row * area_h bytes, the rows
\* that its own area announces.
C33_BufferMatchesArea ==
    ser.kind = "area"
        => \A k \in 1 .. Len(emitted) :
             Len(emitted[k].buffer)
                = BytesPerRow(ser.input.area) * emitted[k].info.area_h

\* What holds instead: every chunk comes with the whole staging buffer of
\* the serializer, 2 * entries_per_row * rows_per_step bytes
C33_WholeBuffer ==
    ser.kind = "area"
        => \A k \in 1 .. Len(emitted) :
             /\ emitted[k].buffer = ser.a.buffer
             /\ Len(emitted[k].buffer) = BytesPerRow(ser.input.area) * ser.a.rows_per_step
             /\ emitted[k].info.area_h <= ser.a.rows_per_step
             /\ k < Len(emitted) => emitted[k].info.area_h = ser.a.rows_per_step

\* A rectangle of three rows of 2 bytes with a staging buffer of 4 bytes:
\* the second chunk announces one row and comes with two
C33_Witness ==
    /\ ser.kind = "area"
    /\ ser.input = [area |-> Rect(0, 0, 4, 3), color |-> 10, buffer_size |-> 4]
    /\ Len(emitted) = 2
    /\ emitted[1] = [info |-> AreaImgInfo(0, 0, 4, 2), buffer |-> <<170, 170, 170, 170>>]
    /\ emitted[2] = [info |-> AreaImgInfo(0, 2, 4, 1), buffer |-> <<170, 170, 170, 170>>]

\* The 4-bit field of pixel position p (counted from the word boundary at
\* or left of the rectangle) in row r of a buffer of bytes with bpr bytes
\* per row: a word is sent high byte first, so the positions 0 and 1 of a
\* word are in its second byte and 2 and 3 in its first, the even position
\* in the low nibble
FillNibble(buffer, bpr, r, p) ==
    LET i == p \div 4
        j == p % 4
        b == buffer[r * bpr + 2 * i + (IF j < 2 THEN 2 ELSE 1)]
    IN  (b \div (16 ^ (j % 2))) % 16

\* The positions of a row of nwords words, for a rectangle with left edge L
\* and width w, that are no pixel of the rectangle
OutsidePositions(L, w, nwords) ==
    { p \in 0 .. 4 * nwords - 1 : (4 * (L \div 4) + p) \notin L .. L + w - 1 }

\* The edge fields of the chunks of the pixel serializer are zero
PixelEdgesZero ==
    ser.kind = "pixel"
        => \A k \in 1 .. Len(emitted) :
             \A p \in OutsidePositions(ser.area.x, emitted[k].info.area_w,
                                       Len(emitted[k].buffer)) :
                Nibble(emitted[k].buffer[(p \div 4) + 1], p % 4) = 0

\* The edge fields of the chunks of the fill serializer hold the fill
\* colour, or zero
FillEdgesAre(zeroed) ==
    ser.kind = "area"
        => LET bpr == BytesPerRow(ser.input.area)
           IN  \A k \in 1 .. Len(emitted) :
                 \A r \in 0 .. (Len(emitted[k].buffer) \div bpr) - 1 :
                   \A p \in OutsidePositions(ser.input.area.x, ser.input.area.w,
                                             bpr \div 2) :
                      FillNibble(emitted[k].buffer, bpr, r, p)
                         = (IF zeroed THEN 0 ELSE ser.input.color)

\* C34 (as stated): in the buffers of both serializers, the fill and the
\* pixel sequence, the 4-bit fields of an edge word that belong to pixel
\* positions outside the rectangle are zero.
C34_EdgeNibblesZero ==
    /\ PixelEdgesZero
    /\ FillEdgesAre(TRUE)

\* C34 (amended): in the buffers of the pixel sequence serializer the
\* 4-bit fields of an edge word outside the rectangle are zero; in the
\* buffers of the fill serializer they hold the fill colour, like every
\* other field.
C34_EdgeNibbles ==
    /\ PixelEdgesZero
    /\ FillEdgesAre(FALSE)

\* A fill of the columns 3 .. 5 of one row: two words, of whose eight
\* fields five are outside the rectangle, and all eight hold the colour
C34_Witness ==
    /\ ser.kind = "area"
    /\ ser.input = [area |-> Rect(3, 0, 3, 1), color |-> 10, buffer_size |-> 4]
    /\ OutsidePositions(3, 3, 2) = {0, 1, 2, 6, 7}
    /\ emitted = << [info |-> AreaImgInfo(3, 0, 3, 1),
                     buffer |-> <<170, 170, 170, 170>>] >>

\* The same columns from the pixel serializer: the five fields are zero
C34_WitnessPixel ==
    /\ ser.kind = "pixel"
    /\ ser.input.area = Rect(3, 1, 3, 2)
    /\ ser.input.colors = <<12, 13, 14>>
    /\ emitted = << [info |-> AreaImgInfo(3, 1, 3, 1), buffer |-> <<49152, 237>>] >>
    /\ ser.nones = 0

\* C35: every byte of every buffer of the fill serializer for the colour c
\* is c * 16 + c, two pixels of the colour, wherever the rectangle lies and
\* however wide it is; one pixel of the colour 0xA at column 0, 1, 2 or 3
\* gives the buffer AA AA, and the three columns 3 .. 5 of one row give
\* four bytes AA.
C35_FillBytes ==
    ser.kind = "area"
        => LET c == ser.input.color
               A == ser.input.area
           IN  /\ \A b \in 1 .. Len(ser.a.buffer) : ser.a.buffer[b] = c * 16 + c
               /\ \A k \in 1 .. Len(emitted) :
                    /\ emitted[k].buffer # <<>>
                    /\ \A b \in 1 .. Len(emitted[k].buffer) :
                         emitted[k].buffer[b] = c * 16 + c
                    /\ (c = 10 /\ A.x \in 0 .. 3 /\ A.w = 1 /\ A.h = 1)
                         => emitted[k].buffer = <<170, 170>>
                    /\ (c = 10 /\ A.x = 3 /\ A.w = 3 /\ A.h = 1)
                         => emitted[k].buffer = <<170, 170, 170, 170>>

\* One pixel of the colour 0xA at column 2
C35_Witness ==
    /\ ser.kind = "area"
    /\ ser.input = [area |-> Rect(2, 2, 1, 1), color |-> 10, buffer_size |-> 8]
    /\ emitted = << [info |-> AreaImgInfo(2, 2, 1, 1), buffer |-> <<170, 170>>] >>
    /\ ser.nones = 1

\* The columns 3 .. 5 of three rows in the colour 0xF, two rows at a time
C35_WitnessRows ==
    /\ ser.kind = "area"
    /\ ser.input = [area |-> Rect(3, 0, 3, 3), color |-> 15, buffer_size |-> 8]
    /\ Len(emitted) = 2
    /\ emitted[1].buffer = <<255, 255, 255, 255, 255, 255, 255, 255>>

\* The logical full screen area of the driver: the size it reports
FullScreen ==
    AreaImgInfo(0, 0, size(Info, mcs).width % 65536, size(Info, mcs).height % 65536)

\* C36: for each rotation (0, 90, 180, 270) and each panel, display(mode)
\* sends DPY_AREA (0x0034) with x, y, w, h = 0, 0, panel_width,
\* panel_height: the rotation transform maps the logical full screen area,
\* built from the size reported, to the whole physical panel and does not
\* underflow.
C36_DisplayFullPanel ==
    (op.name = "display" /\ state = "Run" /\ dev_info # <<>>)
        => LET pw   == dev_info[1].panel_width
               ph   == dev_info[1].panel_height
               f    == Sent(log)
               n    == Len(f)
               want == CommandWithArgs(52, <<0, 0, pw, ph, op.w[1]>>)
           IN  /\ res # "panic"
               /\ ~rotate_underflows(Info, mcs, FullScreen)
               /\ rotate_area_info(Info, mcs, FullScreen) = AreaImgInfo(0, 0, pw, ph)
               /\ res = "Ok" => (n >= 6 /\ SubSeq(f, n - 5, n) = want)
               /\ \A i \in 1 .. n :
                    f[i] = CmdFrame(52)
                        => \A k \in 1 .. Min(5, n - i) : f[i + k] = want[k + 1]

\* The 5x2 panel rotated by 270 degrees, where the logical screen is 2x5,
\* has been refreshed in full
C36_Witness ==
    /\ op.name = "display" /\ state = "Run" /\ res = "Ok"
    /\ mcs.rotation = "Rotate270"
    /\ dev_info # <<>>
    /\ dev_info[1].panel_width = 5 /\ dev_info[1].panel_height = 2
    /\ FullScreen = AreaImgInfo(0, 0, 2, 5)
    /\ SubSeq(Sent(log), Len(Sent(log)) - 5, Len(Sent(log)))
         = CommandWithArgs(52, <<0, 0, 5, 2, 2>>)

\* The same on the 4x3 panel rotated by 90 degrees
C36_Witness90 ==
    /\ op.name = "display" /\ state = "Run" /\ res = "Ok"
    /\ mcs.rotation = "Rotate90"
    /\ dev_info # <<>>
    /\ dev_info[1].panel_width = 4 /\ dev_info[1].panel_height = 3
    /\ FullScreen = AreaImgInfo(0, 0, 3, 4)

\* The command frames SLEEP (0x0003) and STANDBY (0x0002)
IsPowerDownFrame(tx) == tx \in {CmdFrame(3), CmdFrame(2)}

\* C37: in every sequence of operations of the driver the first frame on
\* the bus after a command frame SLEEP or STANDBY is the command frame
\* SYS_RUN (0x0001); no data frame, register access, image load or display
\* command comes between powering the controller down and waking it.  Step
\* by step: a SLEEP or STANDBY frame is the last frame of its call, which
\* leaves the handle in PowerDown or consumes it; the calls made in
\* PowerDown put nothing on the bus but the SYS_RUN frame of sys_run, which
\* is the only way out of PowerDown; and a consumed handle puts nothing on
\* the bus.
C37_WakeFirst ==
    /\ []((state # "NoDriver" /\ op.name \in DriverOps)
            => \A i \in 1 .. Len(Sent(log)) :
                 IsPowerDownFrame(Sent(log)[i])
                    => /\ i = Len(Sent(log))
                       /\ op.name \in {"sleep", "standby"}
                       /\ state \in {"PowerDown", "Consumed"}
                       /\ state = "PowerDown" <=> res = "Ok")
    /\ [][ /\ (state # "PowerDown" /\ state' = "PowerDown")
                => /\ state = "Run"
                   /\ Len(Sent(log')) = 1
                   /\ IsPowerDownFrame(Sent(log')[1])
           /\ (state = "PowerDown" /\ Frames(log') # <<>> /\ log' # log)
                => /\ op'.name = "sys_run"
                   /\ Sent(log') = <<CmdFrame(1)>>
           /\ (state = "PowerDown" /\ state' # "PowerDown")
                => /\ op'.name = "sys_run"
                   /\ state' \in {"Run", "Consumed"}
                   /\ state' = "Run" <=> (res' = "Ok" /\ Sent(log') = <<CmdFrame(1)>>)
           /\ state = "Consumed"
                => (state' = "Consumed" /\ Frames(log') = <<>>) ]_vars

\* A driver in standby was woken up: the frame of the call is SYS_RUN
C37_Witness ==
    /\ op.name = "sys_run" /\ res = "Ok" /\ state = "Run"
    /\ Sent(log) = <<CmdFrame(1)>>
    /\ config = ConfigA
    /\ mcs.rotation = "Rotate180"

\* A display command was tried on a driver put to sleep: nothing on the bus
C37_WitnessNoMethod ==
    /\ state = "PowerDown"
    /\ op.name = "display_area"
    /\ res = "no method"
    /\ Frames(log) = <<>>

\* The transitions of the lifecycle that take the handle by value
TransitionOps == {"init", "sleep", "standby", "sys_run"}

\* C38: a transition of the lifecycle that fails (init, sleep, standby or
\* sys_run returning an error) consumes the driver: no handle is handed
\* back, neither in the state before the call nor in the target state, so
\* no later operation puts a frame on the bus through that driver and the
\* lifecycle state never returns to the state before the call.
C38_FailedTransitionConsumes ==
    /\ []((op.name \in TransitionOps /\ res # "Ok") => state = "Consumed")
    /\ []((op.name \in TransitionOps /\ res = "Ok") => state \in {"Run", "PowerDown"})
    /\ [][ /\ (op.name = "idle" /\ op'.name \in TransitionOps /\ res' # "Ok")
                => (state # "Consumed" /\ state' = "Consumed")
           /\ state = "Consumed"
                => /\ state' = "Consumed"
                   /\ op'.name \in {op.name, "idle"}
                   /\ log' \in {log, <<>>}
                   /\ dev_info' = dev_info ]_vars

\* A sleep whose command frame failed on the bus has consumed the Run handle
C38_Witness ==
    /\ state = "Consumed"
    /\ op.name = "sleep"
    /\ res = From("SpiError")
    /\ Frames(log) = <<EvWrite(CmdFrame(3), FALSE)>>

\* A wake that ran into the busy timeout has consumed the PowerDown handle
C38_WitnessWake ==
    /\ state = "Consumed"
    /\ op.name = "sys_run"
    /\ res = From("BusyTimeout")
    /\ Frames(log) = <<>>

\* An init that failed after the wake has consumed the handle
C38_WitnessInit ==
    /\ state = "Consumed"
    /\ op.name = "init"
    /\ res # "Ok"
    /\ Len(Frames(log)) > 1

\* Every frame of the log l has an even number of bytes: the bus carries
\* whole 16-bit words
EvenFrames(l) == \A i \in 1 .. Len(Sent(l)) : Len(Sent(l)[i]) % 2 = 0

\* The part of C39 on an even max_buffer_size: every buffer that fill_solid
\* and clear hand to load_image_area has an even length, and they never
\* fail with BufferAlignment
EvenCap ==
    (state = "Run" /\ op.name \in {"fill_solid", "clear"}
        /\ config.max_buffer_size % 2 = 0)
        => LET area == intersection(RequestedArea, bounding_box(Info, mcs))
               a    == AreaSerializer(area, RequestedColor, config.max_buffer_size)
           IN  /\ res # From("BufferAlignment")
               /\ EvenFrames(log)
               /\ Len(a.buffer) % 2 = 0
               /\ \A i \in 1 .. Len(Sent(log)) :
                    i % 14 = 13 => Sent(log)[i] = <<0, 0>> \o a.buffer

\* C39 (as stated): with an even max_buffer_size every buffer the fill
\* serializer hands to load_image_area has an even length and fill_solid
\* and clear never fail with BufferAlignment; with an odd max_buffer_size
\* the fill fails before a frame is on the bus.
C39_OddCapFails ==
    /\ EvenCap
    /\ (state = "Run" /\ op.name \in {"fill_solid", "clear"}
          /\ config.max_buffer_size % 2 = 1)
          => (res = "panic" /\ Frames(log) = <<>>)

\* C39 (amended): the same on an even max_buffer_size; with an odd one a
\* fill whose area has a part on the panel fails (the assertion of
\* AreaSerializer::new) before a frame is on the bus, and a fill whose area
\* has no part on the panel returns Ok with nothing on the bus.
C39_EvenBuffers ==
    /\ EvenCap
    /\ (state = "Run" /\ op.name \in {"fill_solid", "clear"}
          /\ config.max_buffer_size % 2 = 1)
          => /\ log = <<>>
             /\ res # From("BufferAlignment")
             /\ res = IF is_zero_sized(intersection(RequestedArea,
                                                    bounding_box(Info, mcs)))
                      THEN "Ok" ELSE "panic"

\* A fill of two rows of 2 bytes on the 4x3 panel with max_buffer_size 8:
\* one buffer of 4 bytes, sent behind the two bytes of the data preamble
C39_Witness ==
    /\ state = "Run" /\ op.name = "fill_solid" /\ res = "Ok"
    /\ config = ConfigB
    /\ mcs = McsDefault
    /\ Info.panel_width = 4
    /\ op.w = <<3, 1, 3, 2, 10>>
    /\ Len(Sent(log)) = 14
    /\ Sent(log)[13] = <<0, 0, 170, 170, 170, 170>>

\* A clear with max_buffer_size 3 has failed with nothing on the bus
C39_WitnessOdd ==
    /\ state = "Run" /\ op.name = "clear" /\ res = "panic"
    /\ config = ConfigC
    /\ log = <<>>

\* A fill next to the panel with max_buffer_size 3 has returned Ok
C39_WitnessOutside ==
    /\ state = "Run" /\ op.name = "fill_solid" /\ res = "Ok"
    /\ config = ConfigC
    /\ op.w = <<20, 20, 2, 2, 10>>
    /\ log = <<>>

\* The word the pixel serializer produces for the single pixel px: the
\* buffer of the one chunk of a rectangle of that pixel alone
SinglePixelWord(px) ==
    PixelSerializer_next(Rect(px.x, px.y, 1, 1), <<px>>, 0, TRUE).item[1].buffer[1]

\* C40: for a point (x, y) with 0 <= x < width and 0 <= y < height and the
\* 4-bit colour c, the 2 bytes draw_iter sends are the word of the pixel
\* serializer for that one pixel, c * 16^(x mod 4), high byte first: the
\* pixels 0 and 1 of a word are in the byte with index 1 and the pixels 2
\* and 3 in the byte with index 0, the colour in the low nibble for an even
\* x and in the high nibble for an odd x, and every other nibble is zero.
C40_PointBytes ==
    (state = "Run" /\ op.name = "draw_iter" /\ Len(op.w) = 3 /\ Len(Sent(log)) >= 13)
        => LET x == op.w[1]
               y == op.w[2]
               c == op.w[3]
               d == SubSeq(Sent(log)[13], 3, Len(Sent(log)[13]))
           IN  (x >= 0 /\ x < size(Info, mcs).width /\ y >= 0 /\ y < size(Info, mcs).height)
                  => /\ Sent(log)[13] = <<0, 0>> \o d
                     /\ Len(d) = 2
                     /\ \A w \in {SinglePixelWord([x |-> x, y |-> y, luma |-> c])} :
                          /\ w = c * (16 ^ (x % 4))
                          /\ d = <<HiByte(w), LoByte(w)>>
                          /\ \A k \in 0 .. 3 : Nibble(w, k) = (IF k = x % 4 THEN c ELSE 0)
                     /\ d[IF x % 4 < 2 THEN 2 ELSE 1] = c * (16 ^ (x % 2))
                     /\ d[IF x % 4 < 2 THEN 1 ELSE 2] = 0

\* The point (1, 1) in the colour 7: the word 0x0070, sent as 00 70
C40_Witness ==
    /\ state = "Run" /\ op.name = "draw_iter" /\ res = "Ok"
    /\ op.w = <<1, 1, 7>>
    /\ SinglePixelWord([x |-> 1, y |-> 1, luma |-> 7]) = 112
    /\ Sent(log)[13] = <<0, 0, 0, 112>>

\* The point (2, 0) in the colour 5: the word 0x0500, sent as 05 00
C40_WitnessHigh ==
    /\ state = "Run" /\ op.name = "draw_iter" /\ res = "Ok"
    /\ op.w = <<2, 0, 5>>
    /\ size(Info, mcs).width > 2
    /\ Sent(log)[13] = <<0, 0, 5, 0>>

\* The point (3, 1) in the colour 0xC: the word 0xC000, sent as C0 00
C40_WitnessOdd ==
    /\ state = "Run" /\ op.name = "draw_iter" /\ res = "Ok"
    /\ op.w = <<3, 1, 12>>
    /\ size(Info, mcs).width > 3
    /\ Sent(log)[13] = <<0, 0, 192, 0>>

====
